---- MODULE Spec2Model ----
(***************************************************************************)
(* Local-first task manager: the task table, the sync_queue outbox and the *)
(* reconciliation pass of SyncService, with the queue administration       *)
(* operations.  One action per awaited call of a service method: a pass    *)
(* (SyncService.sync) is one action for the snapshot fetch and, per        *)
(* snapshot item, one action for the remote call and one for each          *)
(* statement on the database, because other requests are served while the  *)
(* pass awaits.                                                            *)
(***************************************************************************)
EXTENDS Integers, Sequences, FiniteSets, TLC

VARIABLES tasks, queue, nextSyncId, now, pass, call, batchCall, attempts,
          applied, overlapped, last

vars ==
  <<tasks, queue, nextSyncId, now, pass, call, batchCall, attempts, applied,
    overlapped, last>>

(***************************************************************************)
(* Bounds of the exploration.                                              *)
(***************************************************************************)
\* number of sync_queue rows ever inserted
MaxIntents == 2
\* last value of the millisecond clock
MaxTime == 2
\* no further pass is started once an intent has been attempted this often
MaxAttempts == 4
\* the store rejects a statement that follows the remote apply of an intent
\* only while the intent has been applied fewer than MaxApplied times
MaxApplied == 2

(***************************************************************************)
(* Program constants and value domains.                                    *)
(***************************************************************************)
\* private maxRetries = 3
maxRetries == 3

\* SQL NULL / JS null in a timestamp column and in a text column
NullTime == 0
NullStr == "<null>"

\* ids uuidv4() hands to createTask, in the order they are handed out
TaskIds == <<"t1", "t2">>
\* a record id a direct enqueue may name; it contains 'fail'
FailTaskId == "x-fail"

Passes == {1, 2}

Range(s) == {s[i] : i \in DOMAIN s}

(***************************************************************************)
(* Rows and objects.                                                       *)
(***************************************************************************)
\* Boolean(row.completed), Boolean(row.is_deleted)
ToBoolean(n) == n # 0
\* task.completed ? 1 : 0
ToSqlBool(b) == IF b THEN 1 ELSE 0

\* the Task object TaskService.getTask builds from a row of tasks
RowToTask(row) ==
  [id |-> row.id, title |-> row.title, description |-> row.description,
   completed |-> ToBoolean(row.completed),
   created_at |-> row.created_at, updated_at |-> row.updated_at,
   is_deleted |-> ToBoolean(row.is_deleted),
   sync_status |-> row.sync_status, server_id |-> row.server_id,
   last_synced_at |-> row.last_synced_at]

\* the row INSERT INTO tasks writes for a Task object
TaskToRow(task) ==
  [id |-> task.id, title |-> task.title, description |-> task.description,
   completed |-> ToSqlBool(task.completed),
   created_at |-> task.created_at, updated_at |-> task.updated_at,
   is_deleted |-> ToSqlBool(task.is_deleted),
   sync_status |-> task.sync_status, server_id |-> task.server_id,
   last_synced_at |-> task.last_synced_at]

\* SELECT * FROM tasks WHERE id = ? AND is_deleted = 0
getTask(id) ==
  IF id \in DOMAIN tasks /\ tasks[id].is_deleted = 0
  THEN <<RowToTask(tasks[id])>>
  ELSE <<>>

\* The data column of sync_queue.  [text |-> "json", value |-> v] is the
\* text JSON.stringify(v) of an object v; EmptyText is the text '' and
\* NullData is SQL NULL; every other text is a non-empty text that is not
\* JSON (such as '{bad').
EmptyText == [text |-> "", value |-> <<>>]
NullData == [text |-> NullStr, value |-> <<>>]
\* a caller that passes no data (op.data undefined)
NoData == [undefined |-> TRUE]
\* the empty object {}
EmptyObject == <<>>
\* the value null
JSONnull == [null |-> TRUE]

\* JSON.stringify(data): the text of an object; undefined for undefined,
\* which the INSERT stores as NULL
JSONstringify(data) ==
  IF data = NoData THEN NullData ELSE [text |-> "json", value |-> data]
\* JSON.parse(text): <<v>>, or <<>> for the SyntaxError; JSON.parse(null)
\* is null
JSONparse(s) ==
  IF s.text = "json" THEN <<s.value>>
  ELSE IF s = NullData THEN <<JSONnull>>
  ELSE <<>>
\* item.data as a condition: '' and NULL are falsy
Truthy(s) == s # EmptyText /\ s # NullData

(***************************************************************************)
(* The outbox: sync_queue, kept in rowid (insertion) order.                *)
(***************************************************************************)
\* the row addToSyncQueue inserts; syncId is the fresh uuid
SyncItem(syncId, taskId, operation, data) ==
  [id |-> syncId, task_id |-> taskId, operation |-> operation,
   data |-> JSONstringify(data), created_at |-> now,
   retry_count |-> 0, error_message |-> NullStr, updated_at |-> NullTime]

\* mutant: only creations are enqueued
addToSyncQueueCreatesOnly(q, taskId, operation, data) ==
  IF operation = "create"
  THEN Append(q, SyncItem(nextSyncId, taskId, operation, data))
  ELSE q

addToSyncQueue(q, taskId, operation, data) ==
  Append(q, SyncItem(nextSyncId, taskId, operation, data))

QueueIds(q) == {q[i].id : i \in DOMAIN q}

\* the queued row with this id (callers check membership first)
RowOf(q, id) == CHOOSE r \in Range(q) : r.id = id

\* ORDER BY created_at ASC over rows delivered in rowid order: rows with
\* equal created_at keep the order in which the scan delivered them
RECURSIVE InsertByCreatedAt(_, _)
InsertByCreatedAt(sorted, row) ==
  IF sorted = <<>> THEN <<row>>
  ELSE IF sorted[Len(sorted)].created_at <= row.created_at
       THEN Append(sorted, row)
       ELSE Append(InsertByCreatedAt(SubSeq(sorted, 1, Len(sorted) - 1), row),
                   sorted[Len(sorted)])

RECURSIVE OrderByCreatedAtAsc(_)
OrderByCreatedAtAsc(rows) ==
  IF rows = <<>> THEN <<>>
  ELSE InsertByCreatedAt(OrderByCreatedAtAsc(SubSeq(rows, 1, Len(rows) - 1)),
                         rows[Len(rows)])

\* mutant: only intents that have never failed are fetched
IsPendingFresh(row) == row.retry_count < 1

\* mutant: the exhausted rows pass the filter too
IsPendingInclusive(row) == row.retry_count <= maxRetries

\* WHERE retry_count < ?
IsPending(row) == row.retry_count < maxRetries
\* WHERE retry_count >= ?
IsFailed(row) == row.retry_count >= maxRetries

\* SELECT * FROM sync_queue WHERE retry_count < ? ORDER BY created_at ASC
PendingItems(q) == OrderByCreatedAtAsc(SelectSeq(q, IsPending))

\* DELETE FROM sync_queue WHERE id = ?
\* mutant: the DELETE after a successful apply is missing
DeleteItemNone(q, id) == q

\* mutant: the DELETE names the record instead of the intent
DeleteItemOfTask(q, id) ==
  IF id \in QueueIds(q)
  THEN SelectSeq(q, LAMBDA row : row.task_id # RowOf(q, id).task_id)
  ELSE q

DeleteItem(q, id) == SelectSeq(q, LAMBDA r : r.id # id)

\* mutant: the UPDATE has lost its WHERE id = ?
MarkFailedAll(q, id, newRetryCount, message) ==
  [i \in DOMAIN q |->
     [q[i] EXCEPT !.retry_count = newRetryCount,
                  !.error_message = message,
                  !.updated_at = now]]

\* UPDATE sync_queue SET retry_count = ?, error_message = ?, updated_at = ?
\* WHERE id = ?
MarkFailed(q, id, newRetryCount, message) ==
  [i \in DOMAIN q |->
     IF q[i].id = id
     THEN [q[i] EXCEPT !.retry_count = newRetryCount,
                       !.error_message = message,
                       !.updated_at = now]
     ELSE q[i]]

\* mutant: the update skips soft-deleted rows (AND is_deleted = 0)
MarkSyncedLiveOnly(t, id) ==
  IF id \in DOMAIN t /\ t[id].is_deleted = 0
  THEN [t EXCEPT ![id].sync_status = "synced", ![id].last_synced_at = now]
  ELSE t

\* UPDATE tasks SET sync_status = ?, last_synced_at = ? WHERE id = ?
MarkSynced(t, id) ==
  IF id \in DOMAIN t
  THEN [t EXCEPT ![id].sync_status = "synced", ![id].last_synced_at = now]
  ELSE t

\* UPDATE tasks SET sync_status = ? WHERE id = ?
MarkError(t, id) ==
  IF id \in DOMAIN t THEN [t EXCEPT ![id].sync_status = "error"] ELSE t

(***************************************************************************)
(* processSyncItem / makeApiCall: the error an item ends with, or NoError. *)
(***************************************************************************)
NoError == "<none>"

\* what the remote answers to one request: "ok" or the message of the
\* AxiosError (connectivity failure, rejection by the remote)
RemoteReplies == {"ok", "Network Error"}

\* String.prototype.includes
Includes(s, sub) ==
  \E i \in 1..(Len(s) - Len(sub) + 1) : SubSeq(s, i, i + Len(sub) - 1) = sub

makeApiCall(operation, reply) ==
  IF operation \in {"create", "update", "delete"}
  THEN IF reply = "ok" THEN NoError ELSE "API Error: " \o reply
  ELSE "Unknown operation: " \o operation

\* taskData = item.data ? JSON.parse(item.data) : {}; <<>> when JSON.parse
\* throws
TaskData(item) ==
  IF Truthy(item.data) THEN JSONparse(item.data) ELSE <<EmptyObject>>

\* the message of the TypeError that reading a property of null throws
NullTitleError == "Cannot read properties of null (reading 'title')"

\* the test triggers are tested left to right: task_id.includes('fail'),
\* then taskData.title, which throws a TypeError when taskData is null
processSyncItem(item, reply) ==
  IF item.operation = "fail" THEN "Forced failure for testing"
  ELSE IF TaskData(item) = <<>> THEN "Malformed data in sync queue"
  ELSE LET taskData == TaskData(item)[1] IN
       IF Includes(item.task_id, "fail") THEN "Test sync failure"
       ELSE IF taskData = JSONnull THEN NullTitleError
       ELSE IF \/ ("title" \in DOMAIN taskData
                     /\ taskData.title = "TEST_FAILURE")
               \/ ("description" \in DOMAIN taskData
                     /\ taskData.description = "TEST_FAILURE")
       THEN "Test sync failure"
       ELSE makeApiCall(item.operation, reply)

(***************************************************************************)
(* State.                                                                  *)
(*   tasks      the tasks table, keyed by id                               *)
(*   queue      the sync_queue table in rowid order                        *)
(*   nextSyncId the next fresh sync_queue id                               *)
(*   now        the clock new Date() reads                                 *)
(*   pass       per invocation of sync() in flight: its locals, the call   *)
(*              it awaits, and as history the snapshot intents it removed  *)
(*              (removed) and those it found no longer queued (missing)    *)
(*   call       per TaskService call in flight: where it is and its locals *)
(*   batchCall  the POST /batch in flight: its operations and how many of   *)
(*              their INSERTs have settled                                 *)
(*   applied    history: per intent, the remote calls for it that the      *)
(*              remote answered with success                               *)
(*   overlapped history: a sync() has started while another was in flight  *)
(*   attempts   history: per intent, the attempts made on it since it was  *)
(*              enqueued or last reset                                     *)
(*   last       history: the last call that changed the stores or a pass,  *)
(*              and what it returned                                       *)
(* A call that changes nothing (an update of a missing record, a           *)
(* retryAllFailed or a purge that matches no row) is a stuttering step;    *)
(* what it returns is the value of its result operator in that state.      *)
(***************************************************************************)
\* a TaskService call in flight: the statement it runs next (pc), the
\* method (op), the record id, the values its UPDATE binds (set) and the
\* task object it hands to addToSyncQueue (payload)
Callers == {1, 2}
\* a call of TaskService: where it stands, what it holds in its locals, and
\* (history) the callers that wrote the same record before it and have not
\* returned, and the intents that later writers enqueued ahead of it
IdleCall ==
  [pc |-> "idle", op |-> "", id |-> "",
   set |-> [title |-> "", description |-> "", completed |-> 0],
   payload |-> <<>>, after |-> {}, overtaken |-> {}]

\* an invocation of sync(): its locals (items, the index of the item in
\* hand, successCount, errorCount, details), the awaited call it is at within
\* the item (at: the remote call, UPDATE tasks 'synced', DELETE FROM
\* sync_queue, UPDATE sync_queue, UPDATE tasks 'error'), the error caught
\* for the item, and history: the record's status before the pass wrote it
\* (prev), whether the intent was queued when the pass wrote the queue
\* (queued), the intents removed and those found gone
IdlePass ==
  [pc |-> "idle", items |-> <<>>, idx |-> 0, successCount |-> 0,
   errorCount |-> 0, details |-> <<>>, at |-> "", error |-> NoError,
   prev |-> "", queued |-> FALSE, removed |-> {}, missing |-> {}]

\* a POST /batch in flight: the operations it has mapped to addToSyncQueue
\* calls, how many of their INSERTs have settled (idx), the clock the calls
\* read when they were issued (at), and history: the intents appended
IdleBatch ==
  [pc |-> "idle", ops |-> <<>>, idx |-> 0, at |-> 0, appended |-> {}]

\* the details object of a sync() result: the per-intent entries in the order
\* they were written, and the two keys that are no intent id
NoMessage == "<none>"
DetailsObject(intents, message, error) ==
  [intents |-> intents, message |-> message, error |-> error]

NoResult ==
  [success |-> FALSE, synced_items |-> 0, failed_items |-> 0,
   details |-> DetailsObject(<<>>, NoMessage, NoError), snapshot |-> <<>>, removed |-> {}, missing |-> {},
   retried |-> 0, failed |-> 0, changes |-> 0,
   count |-> 0, items |-> <<>>,
   http |-> 200, processed |-> 0, successful |-> 0, results |-> <<>>]

Last(op) ==
  [op |-> op, pass |-> 0, id |-> 0, task |-> "", rc |-> 0, error |-> NoError,
   prev |-> "", queued |-> FALSE, returned |-> FALSE, overtaken |-> {},
   appended |-> {}, result |-> NoResult]

Init ==
  /\ tasks = <<>>
  /\ queue = <<>>
  /\ nextSyncId = 1
  /\ now = 1
  /\ pass = [p \in Passes |-> IdlePass]
  /\ call = [c \in Callers |-> IdleCall]
  /\ batchCall = IdleBatch
  /\ attempts = [i \in 1..MaxIntents |-> 0]
  /\ applied = [i \in 1..MaxIntents |-> 0]
  /\ overlapped = FALSE
  /\ last = Last("init")

\* the clock advances
Tick ==
  /\ now < MaxTime
  /\ now' = now + 1
  /\ UNCHANGED <<tasks, queue, nextSyncId, pass, attempts, last, applied,
                 overlapped, call, batchCall>>

(***************************************************************************)
(* TaskService: createTask, updateTask, deleteTask.                        *)
(***************************************************************************)
Undefined(obj, field) == field \notin DOMAIN obj

\* what callers pass as taskData / updates
CreateInputs == {[title |-> "a"], [title |-> "TEST_FAILURE"]}
UpdateInputs == {[title |-> "TEST_FAILURE"], [completed |-> TRUE]}

\* the Task object createTask builds
NewTask(taskId, taskData) ==
  [id |-> taskId,
   title |-> IF Undefined(taskData, "title") THEN "" ELSE taskData.title,
   description |-> IF Undefined(taskData, "description") THEN ""
                   ELSE taskData.description,
   completed |-> IF Undefined(taskData, "completed") THEN FALSE
                 ELSE taskData.completed,
   created_at |-> now, updated_at |-> now, is_deleted |-> FALSE,
   sync_status |-> "pending", server_id |-> NullStr,
   last_synced_at |-> NullTime]

\* UPDATE tasks SET title, description, completed, updated_at, sync_status
UpdatedRow(row, set) ==
  [row EXCEPT !.title = set.title,
              !.description = set.description,
              !.completed = set.completed,
              !.updated_at = now,
              !.sync_status = "pending"]

\* mutant: the soft delete also clears last_synced_at
DeletedRowUnsynced(row) ==
  [row EXCEPT !.is_deleted = 1, !.updated_at = now, !.sync_status = "pending",
              !.last_synced_at = NullTime]

\* UPDATE tasks SET is_deleted = 1, updated_at = ?, sync_status = 'pending'
DeletedRow(row) ==
  [row EXCEPT !.is_deleted = 1, !.updated_at = now, !.sync_status = "pending"]

\* history: the calls in flight that have written record id
WroteBefore(c, id) ==
  {d \in Callers \ {c} : call[d].pc \in {"get", "enqueue"} /\ call[d].id = id}

\* the call table once call c has returned; an intent it enqueued (ids) is
\* ahead of every call that wrote the record before c did
Returned(c, ids) ==
  [d \in Callers |->
     IF d = c THEN IdleCall
     ELSE [call[d] EXCEPT !.after = @ \ {c},
                          !.overtaken = IF d \in call[c].after
                                        THEN @ \cup ids ELSE @]]

\* calls of TaskService in flight, the slots taken in order; a call starts
\* while there is a fresh intent id left for every call in flight
InFlight == Cardinality({c \in Callers : call[c].pc # "idle"})
\* the store rejects the INSERT of an intent that names no record
EnqueueFails(op) == op.taskId = NullStr
EnqueueError == "SQLITE_CONSTRAINT: NOT NULL constraint failed"

\* the INSERTs of the batch in flight that have not settled and that the
\* store will accept
BatchInFlight ==
  Cardinality({k \in (batchCall.idx + 1)..Len(batchCall.ops) :
                 ~EnqueueFails(batchCall.ops[k])})
MayStart(c) ==
  /\ call[c].pc = "idle"
  /\ \A d \in Callers : d < c => call[d].pc # "idle"
  /\ nextSyncId + InFlight + BatchInFlight <= MaxIntents

\* createTask up to its first await: the Task object is built with the clock
\* read once, and INSERT INTO tasks runs
createTask(c, taskData) ==
  /\ MayStart(c)
  /\ Cardinality(DOMAIN tasks) < Len(TaskIds)
  /\ LET taskId == TaskIds[Cardinality(DOMAIN tasks) + 1]
         task == NewTask(taskId, taskData)
     IN /\ tasks' = tasks @@ (taskId :> TaskToRow(task))
        /\ call' = [call EXCEPT ![c] = [IdleCall EXCEPT !.pc = "enqueue",
                                                        !.op = "create",
                                                        !.id = taskId,
                                                        !.payload = <<task>>]]
        /\ last' = [Last("createTask") EXCEPT !.task = taskId]
  /\ UNCHANGED <<queue, nextSyncId, now, pass, attempts, applied, overlapped,
                 batchCall>>

\* the values the UPDATE of updateTask binds, from the updates and the task
\* read before
UpdateParams(existingTask, updates) ==
  [title |-> IF Undefined(updates, "title") THEN existingTask.title
             ELSE updates.title,
   description |-> IF Undefined(updates, "description")
                   THEN existingTask.description ELSE updates.description,
   completed |-> IF Undefined(updates, "completed")
                 THEN ToSqlBool(existingTask.completed)
                 ELSE ToSqlBool(updates.completed)]

\* updateTask up to its first await: const existingTask = getTask(id);
\* if (!existingTask) return null
updateTask(c, id, updates) ==
  LET existingTask == getTask(id) IN
  IF existingTask = <<>>
  THEN UNCHANGED vars
  ELSE /\ MayStart(c)
       /\ call' = [call EXCEPT ![c] =
                     [IdleCall EXCEPT
                        !.pc = "update", !.op = "update", !.id = id,
                        !.set = UpdateParams(existingTask[1], updates)]]
       /\ UNCHANGED <<tasks, queue, nextSyncId, now, pass, attempts, applied,
                      overlapped, last, batchCall>>

\* updateTask: the clock is read and UPDATE tasks ... WHERE id = ? runs
updateTaskUpdate(c) ==
  /\ call[c].pc = "update" /\ call[c].op = "update"
  /\ tasks' = [tasks EXCEPT ![call[c].id] = UpdatedRow(@, call[c].set)]
  /\ call' = [call EXCEPT ![c].pc = "get",
                          ![c].after = WroteBefore(c, call[c].id)]
  /\ last' = [Last("updateTask") EXCEPT !.task = call[c].id]
  /\ UNCHANGED <<queue, nextSyncId, now, pass, attempts, applied, overlapped,
                 batchCall>>

\* updateTask: const updatedTask = getTask(id); without it the call returns
\* null and enqueues nothing
updateTaskGet(c) ==
  /\ call[c].pc = "get"
  /\ LET updatedTask == getTask(call[c].id) IN
     IF updatedTask = <<>>
     THEN /\ call' = Returned(c, {})
          /\ last' = [Last("updateTask") EXCEPT !.task = call[c].id,
                                                !.returned = TRUE]
     ELSE /\ call' = [call EXCEPT ![c].pc = "enqueue",
                                  ![c].payload = updatedTask]
          /\ UNCHANGED last
  /\ UNCHANGED <<tasks, queue, nextSyncId, now, pass, attempts, applied,
                 overlapped, batchCall>>

\* deleteTask up to its first await: const existingTask = getTask(id);
\* if (!existingTask) return false
deleteTask(c, id) ==
  LET existingTask == getTask(id) IN
  IF existingTask = <<>>
  THEN UNCHANGED vars
  ELSE /\ MayStart(c)
       /\ call' = [call EXCEPT ![c] =
                     [IdleCall EXCEPT !.pc = "update", !.op = "delete",
                                      !.id = id, !.payload = existingTask]]
       /\ UNCHANGED <<tasks, queue, nextSyncId, now, pass, attempts, applied,
                      overlapped, last, batchCall>>

\* deleteTask: the clock is read and the soft-delete UPDATE runs; the call
\* goes on to enqueue the task it read before
deleteTaskUpdate(c) ==
  /\ call[c].pc = "update" /\ call[c].op = "delete"
  /\ tasks' = [tasks EXCEPT ![call[c].id] = DeletedRow(@)]
  /\ call' = [call EXCEPT ![c].pc = "enqueue",
                          ![c].after = WroteBefore(c, call[c].id)]
  /\ last' = [Last("deleteTask") EXCEPT !.task = call[c].id]
  /\ UNCHANGED <<queue, nextSyncId, now, pass, attempts, applied, overlapped,
                 batchCall>>

\* the name of the TaskService method behind an operation
MethodOf(op) ==
  IF op = "create" THEN "createTask"
  ELSE IF op = "update" THEN "updateTask" ELSE "deleteTask"

\* await this.syncService.addToSyncQueue(id, op, task), after which the call
\* returns
enqueueTask(c) ==
  /\ call[c].pc = "enqueue"
  /\ queue' = addToSyncQueue(queue, call[c].id, call[c].op, call[c].payload[1])
  /\ call' = Returned(c, {nextSyncId})
  /\ last' = [Last(MethodOf(call[c].op)) EXCEPT
                !.id = nextSyncId, !.task = call[c].id, !.returned = TRUE,
                !.overtaken = call[c].overtaken]
  /\ nextSyncId' = nextSyncId + 1
  /\ UNCHANGED <<tasks, now, pass, attempts, applied, overlapped, batchCall>>

\* addToSyncQueue called directly (the batch route, the tests): the record
\* id and the operation are whatever the caller names
ForcedFailure ==
  [taskId |-> "t1", operation |-> "fail", data |-> [title |-> "a"]]
\* a creation submitted to the queue directly (POST /batch)
DirectCreate ==
  [taskId |-> "t1", operation |-> "create", data |-> [title |-> "a"]]
EnqueueInputs ==
  {ForcedFailure,
   [taskId |-> FailTaskId, operation |-> "update", data |-> [title |-> "a"]],
   [taskId |-> "t2", operation |-> "patch", data |-> [title |-> "a"]]}

enqueue(op) ==
  /\ nextSyncId + InFlight + BatchInFlight <= MaxIntents
  /\ queue' = addToSyncQueue(queue, op.taskId, op.operation, op.data)
  /\ last' = [Last("enqueue") EXCEPT
                !.id = nextSyncId, !.task = op.taskId, !.returned = TRUE]
  /\ nextSyncId' = nextSyncId + 1
  /\ UNCHANGED <<tasks, now, pass, attempts, applied, overlapped, call,
                 batchCall>>

(***************************************************************************)
(* SyncService.sync: the snapshot fetch, then per snapshot item the remote *)
(* call, UPDATE tasks and DELETE FROM sync_queue, or on a failure UPDATE   *)
(* sync_queue and, at maxRetries, UPDATE tasks.                            *)
(***************************************************************************)
\* mutant: the failure is recorded without the increment
handleSyncErrorQueueNoIncrement(q, item, message) ==
  MarkFailed(q, item.id, item.retry_count, message)

\* mutant: an exhausted intent is dropped from the queue
handleSyncErrorQueueDrop(q, item, message) ==
  IF item.retry_count + 1 >= maxRetries THEN DeleteItem(q, item.id)
  ELSE MarkFailed(q, item.id, item.retry_count + 1, message)

\* mutant: the increment is taken from the stored row, not from the snapshot
handleSyncErrorQueueStored(q, item, message) ==
  IF item.id \in QueueIds(q)
  THEN MarkFailed(q, item.id, RowOf(q, item.id).retry_count + 1, message)
  ELSE q

\* handleSyncError on sync_queue: newRetryCount = item.retry_count + 1
handleSyncErrorQueue(q, item, message) ==
  MarkFailed(q, item.id, item.retry_count + 1, message)

\* mutant: the Record is escalated one failure late (> for >=)
handleSyncErrorTasksLate(t, item) ==
  IF item.retry_count + 1 > maxRetries THEN MarkError(t, item.task_id) ELSE t

\* handleSyncError on tasks: if (newRetryCount >= this.maxRetries)
handleSyncErrorTasks(t, item) ==
  IF item.retry_count + 1 >= maxRetries THEN MarkError(t, item.task_id) ELSE t

\* the entry sync() writes into details for an item
Detail(item, error) ==
  [id |-> item.id,
   status |-> IF error = NoError THEN "success" ELSE "error",
   taskId |-> item.task_id, error |-> error]

\* the object sync() returns after the loop
SyncResult(successCount, errorCount, details) ==
  [NoResult EXCEPT !.success = (errorCount = 0),
                   !.synced_items = successCount,
                   !.failed_items = errorCount,
                   !.details = DetailsObject(details, NoMessage, NoError)]

\* if (items.length === 0) return { success: true, synced_items: 0,
\* failed_items: 0, details: { message: 'No items to sync' } }
EmptySyncResult ==
  [NoResult EXCEPT !.success = TRUE,
                   !.details = DetailsObject(<<>>, "No items to sync", NoError)]

SeqIds(items) == [i \in DOMAIN items |-> items[i].id]

\* mutant: successCount++ has moved in front of the await
CountSuccessAlways(n, ok) == n + 1

\* successCount++ / errorCount++
CountSuccess(n, ok) == IF ok THEN n + 1 ELSE n
CountError(n, ok) == IF ok THEN n ELSE n + 1

\* the error processSyncItem throws before it calls the remote (the forced
\* failure, malformed data, the test triggers, a null payload, an unknown
\* operation), or NoError
ThrowsBeforeCall(item) == processSyncItem(item, "ok")

\* the loop of sync() takes up items[idx]: processSyncItem runs to its first
\* await, which is the remote call, or throws before it, and then
\* handleSyncError runs to its UPDATE sync_queue
TakeUp(me, idx) ==
  LET error == ThrowsBeforeCall(me.items[idx]) IN
  [me EXCEPT !.idx = idx,
             !.at = IF error = NoError THEN "call" ELSE "fail",
             !.error = error, !.prev = "", !.queued = FALSE]

syncStart(p) ==
  /\ pass[p].pc = "idle"
  /\ \A q \in Passes : q < p => pass[q].pc = "running"
  /\ \A i \in DOMAIN queue : attempts[queue[i].id] < MaxAttempts
  /\ LET items == PendingItems(queue) IN
     IF Len(items) = 0
     THEN /\ last' = [Last("sync") EXCEPT !.pass = p, !.returned = TRUE,
                                         !.result = EmptySyncResult]
          /\ UNCHANGED <<tasks, queue, nextSyncId, now, pass, attempts,
                         applied, overlapped, call, batchCall>>
     ELSE /\ pass' = [pass EXCEPT ![p] =
                        TakeUp([IdlePass EXCEPT !.pc = "running",
                                                !.items = items], 1)]
          /\ last' = [Last("sync") EXCEPT !.pass = p]
          /\ overlapped' = (overlapped
                              \/ \E q \in Passes : pass[q].pc = "running")
          /\ UNCHANGED <<tasks, queue, nextSyncId, now, attempts, applied,
                         call, batchCall>>

\* the item pass p has in hand
CurrentItem(p) == pass[p].items[pass[p].idx]

\* history: pass p has made a step on item that leaves it with the item
StepOf(op, p, item) ==
  [Last(op) EXCEPT !.pass = p, !.id = item.id, !.task = item.task_id,
                   !.rc = item.retry_count]

\* await this.makeApiCall(...): the remote answers; on success the pass goes
\* on to UPDATE tasks, on failure the error is caught by the loop
syncItemCall(p, reply) ==
  /\ pass[p].pc = "running" /\ pass[p].at = "call"
  /\ LET item == CurrentItem(p)
         error == makeApiCall(item.operation, reply)
     IN /\ pass' = [pass EXCEPT ![p].at = IF error = NoError THEN "update"
                                          ELSE "fail",
                                ![p].error = error]
        /\ applied' = [applied EXCEPT
                         ![item.id] = IF error = NoError THEN @ + 1 ELSE @]
        /\ last' = StepOf("makeApiCall", p, item)
  /\ UNCHANGED <<tasks, queue, nextSyncId, now, attempts, overlapped, call,
                 batchCall>>

\* the pass is through with its item: the entry in details, then the next
\* item or the result
ItemDone(p, me, error, queued) ==
  LET item == me.items[me.idx]
      ok == error = NoError
      successCount == CountSuccess(me.successCount, ok)
      details == Append(me.details, Detail(item, error))
      done == [me EXCEPT !.successCount = successCount, !.details = details]
      finished == me.idx = Len(me.items)
  IN /\ pass' = [pass EXCEPT ![p] = IF finished THEN IdlePass
                                    ELSE TakeUp(done, me.idx + 1)]
     /\ last' = [Last("syncItem") EXCEPT
                   !.pass = p, !.id = item.id, !.task = item.task_id,
                   !.rc = item.retry_count, !.error = error,
                   !.queued = queued, !.prev = me.prev,
                   !.returned = finished,
                   !.result =
                     IF finished
                     THEN [SyncResult(successCount, me.errorCount, details)
                             EXCEPT !.snapshot = SeqIds(me.items),
                                    !.removed = me.removed,
                                    !.missing = me.missing]
                     ELSE NoResult]

\* the status of the Record an item names, "" when there is no such Record
StatusOf(id) == IF id \in DOMAIN tasks THEN tasks[id].sync_status ELSE ""

\* await UPDATE tasks SET sync_status = 'synced', last_synced_at = now
syncItemUpdate(p) ==
  /\ pass[p].pc = "running" /\ pass[p].at = "update"
  /\ LET item == CurrentItem(p) IN
     /\ tasks' = MarkSynced(tasks, item.task_id)
     /\ pass' = [pass EXCEPT ![p].at = "delete",
                             ![p].prev = StatusOf(item.task_id)]
     /\ last' = StepOf("processSyncItem", p, item)
  /\ UNCHANGED <<queue, nextSyncId, now, attempts, applied, overlapped, call,
                 batchCall>>

\* await DELETE FROM sync_queue WHERE id = ?; then successCount++ and the
\* entry in details
syncItemDelete(p) ==
  /\ pass[p].pc = "running" /\ pass[p].at = "delete"
  /\ LET me == pass[p]
         item == CurrentItem(p)
         queued == item.id \in QueueIds(queue)
     IN /\ queue' = DeleteItem(queue, item.id)
        /\ attempts' = [attempts EXCEPT ![item.id] = 0]
        /\ ItemDone(p, [me EXCEPT
                          !.removed = IF queued THEN @ \cup {item.id} ELSE @,
                          !.missing = IF queued THEN @ ELSE @ \cup {item.id}],
                    NoError, queued)
  /\ UNCHANGED <<tasks, nextSyncId, now, applied, overlapped, call, batchCall>>

\* if (newRetryCount >= this.maxRetries)
Escalates(item) == item.retry_count + 1 >= maxRetries

\* catch (err): errorCount++, then handleSyncError up to its
\* await UPDATE sync_queue SET retry_count, error_message, updated_at
syncItemFail(p) ==
  /\ pass[p].pc = "running" /\ pass[p].at = "fail"
  /\ LET me == pass[p]
         item == CurrentItem(p)
         queued == item.id \in QueueIds(queue)
         failed == [me EXCEPT
                      !.errorCount = CountError(@, FALSE),
                      !.queued = queued,
                      !.prev = StatusOf(item.task_id),
                      !.missing = IF queued THEN @ ELSE @ \cup {item.id}]
     IN /\ queue' = handleSyncErrorQueue(queue, item, me.error)
        /\ attempts' = [attempts EXCEPT
                          ![item.id] = IF queued THEN @ + 1 ELSE 0]
        /\ IF Escalates(item)
           THEN /\ pass' = [pass EXCEPT ![p] = [failed EXCEPT
                                                  !.at = "escalate"]]
                /\ last' = StepOf("handleSyncError", p, item)
           ELSE ItemDone(p, failed, me.error, queued)
  /\ UNCHANGED <<tasks, nextSyncId, now, applied, overlapped, call, batchCall>>

\* await UPDATE tasks SET sync_status = 'error'
syncItemEscalate(p) ==
  /\ pass[p].pc = "running" /\ pass[p].at = "escalate"
  /\ LET me == pass[p]
         item == CurrentItem(p)
     IN /\ tasks' = handleSyncErrorTasks(tasks, item)
        /\ ItemDone(p, [me EXCEPT !.prev = StatusOf(item.task_id)],
                    me.error, me.queued)
  /\ UNCHANGED <<queue, nextSyncId, now, attempts, applied, overlapped, call,
                 batchCall>>

\* the statements of the loop body of sync()
syncItem(p) ==
  \/ \E reply \in RemoteReplies : syncItemCall(p, reply)
  \/ syncItemUpdate(p)
  \/ syncItemDelete(p)
  \/ syncItemFail(p)
  \/ syncItemEscalate(p)

(***************************************************************************)
(* Queue administration: retryAllFailed, retryFailed, clearSyncQueue.      *)
(***************************************************************************)
\* mutant: the reset also stamps the intent as enqueued now
ResetRowRequeued(row) ==
  [row EXCEPT !.retry_count = 0, !.error_message = NullStr, !.created_at = now]

\* SET retry_count = 0, error_message = NULL
ResetRow(row) == [row EXCEPT !.retry_count = 0, !.error_message = NullStr]

\* id IN (?, ?, ...)
IdIn(ids, id) == \E k \in DOMAIN ids : ids[k] = id

\* mutant: the UPDATE of retryAllFailed has lost its WHERE
MatchesRetryAllRows(row) == TRUE

\* WHERE retry_count >= ?
MatchesRetryAll(row) == IsFailed(row)
\* WHERE id IN (...) AND retry_count >= ?
MatchesRetryFailed(ids, row) == IdIn(ids, row.id) /\ IsFailed(row)

\* UPDATE sync_queue SET ... WHERE retry_count >= ?
retryAllFailedQueue(q) ==
  [i \in DOMAIN q |-> IF MatchesRetryAll(q[i]) THEN ResetRow(q[i]) ELSE q[i]]

\* result.changes of that UPDATE
retryAllFailedChanges(q) ==
  Cardinality({i \in DOMAIN q : MatchesRetryAll(q[i])})

\* { retried: result.changes || 0, failed: 0 }
retryAllFailedResult(q) ==
  [NoResult EXCEPT !.retried = retryAllFailedChanges(q),
                   !.failed = 0,
                   !.changes = retryAllFailedChanges(q)]

\* UPDATE sync_queue SET ... WHERE id IN (...) AND retry_count >= ?
retryFailedQueue(q, ids) ==
  IF Len(ids) = 0 THEN q
  ELSE [i \in DOMAIN q |->
          IF MatchesRetryFailed(ids, q[i]) THEN ResetRow(q[i]) ELSE q[i]]

retryFailedChanges(q, ids) ==
  Cardinality({i \in DOMAIN q : MatchesRetryFailed(ids, q[i])})

\* mutant: the tally reports no id as failed to retry
retryFailedResultNoneFailed(q, ids) ==
  IF Len(ids) = 0 THEN NoResult
  ELSE [NoResult EXCEPT !.retried = retryFailedChanges(q, ids),
                        !.failed = 0,
                        !.changes = retryFailedChanges(q, ids)]

\* { retried: result.changes || 0, failed: ids.length - (result.changes || 0) }
retryFailedResult(q, ids) ==
  IF Len(ids) = 0 THEN NoResult
  ELSE [NoResult EXCEPT !.retried = retryFailedChanges(q, ids),
                        !.failed = Len(ids) - retryFailedChanges(q, ids),
                        !.changes = retryFailedChanges(q, ids)]

\* the id arrays the caller of retryFailed may pass
IdLists ==
  {<<>>} \cup {<<a>> : a \in 1..MaxIntents}
         \cup {<<a, b>> : a \in 1..MaxIntents, b \in 1..MaxIntents}

\* history: the reset intents start a new count of attempts
ResetAttempts(q) ==
  [id \in DOMAIN attempts |->
     IF \E i \in DOMAIN q : q[i].id = id /\ q[i] # queue[i] THEN 0
     ELSE attempts[id]]

\* mutant: the reset also puts the Records of the reset intents back to
\* pending
retryAllFailedRequeues ==
  IF retryAllFailedChanges(queue) = 0
  THEN UNCHANGED vars
  ELSE /\ queue' = retryAllFailedQueue(queue)
       /\ tasks' = [id \in DOMAIN tasks |->
                      IF \E i \in DOMAIN queue :
                           queue[i].task_id = id /\ MatchesRetryAll(queue[i])
                      THEN [tasks[id] EXCEPT !.sync_status = "pending"]
                      ELSE tasks[id]]
       /\ attempts' = ResetAttempts(queue')
       /\ last' = [Last("retryAllFailed") EXCEPT
                     !.returned = TRUE,
                     !.result = retryAllFailedResult(queue)]
       /\ UNCHANGED <<nextSyncId, now, pass, applied, overlapped, call,
                      batchCall>>

retryAllFailed ==
  IF retryAllFailedChanges(queue) = 0
  THEN UNCHANGED vars
  ELSE /\ queue' = retryAllFailedQueue(queue)
       /\ attempts' = ResetAttempts(queue')
       /\ last' = [Last("retryAllFailed") EXCEPT
                     !.returned = TRUE,
                     !.result = retryAllFailedResult(queue)]
       /\ UNCHANGED <<tasks, nextSyncId, now, pass, applied, overlapped, call,
                      batchCall>>

\* retryFailed(ids): the UPDATE and the tally; a call that resets nothing
\* (an empty ids, ids that name no exhausted intent) returns its tally too
retryFailed(ids) ==
  /\ queue' = retryFailedQueue(queue, ids)
  /\ attempts' = ResetAttempts(queue')
  /\ last' = [Last("retryFailed") EXCEPT
                !.returned = TRUE,
                !.result = retryFailedResult(queue, ids)]
  /\ UNCHANGED <<tasks, nextSyncId, now, pass, applied, overlapped, call,
                 batchCall>>

\* DELETE FROM sync_queue; returns result.changes
clearSyncQueueChanges(q) == Len(q)

\* mutant: the purge spares the exhausted intents
clearSyncQueueRowsKeepFailed(q) == SelectSeq(q, IsFailed)

\* the rows DELETE FROM sync_queue leaves
clearSyncQueueRows(q) == <<>>

clearSyncQueue ==
  IF Len(queue) = 0
  THEN UNCHANGED vars
  ELSE /\ queue' = clearSyncQueueRows(queue)
       /\ attempts' = [id \in DOMAIN attempts |-> 0]
       /\ last' = [Last("clearSyncQueue") EXCEPT
                     !.returned = TRUE,
                     !.result = [NoResult EXCEPT
                                   !.changes = clearSyncQueueChanges(queue)]]
       /\ UNCHANGED <<tasks, nextSyncId, now, pass, applied, overlapped, call,
                      batchCall>>

(***************************************************************************)
(* Queue reads: getPendingSyncCount, getFailedSyncCount, getTotalSyncItems,*)
(* getSyncQueue.  They change nothing; each is the value it returns in the *)
(* current state.                                                          *)
(***************************************************************************)
\* SELECT COUNT(*) FROM sync_queue WHERE retry_count < ?
getPendingSyncCount(q) == Cardinality({i \in DOMAIN q : IsPending(q[i])})
\* SELECT COUNT(*) FROM sync_queue WHERE retry_count >= ?
getFailedSyncCount(q) == Cardinality({i \in DOMAIN q : IsFailed(q[i])})
\* SELECT COUNT(*) FROM sync_queue
getTotalSyncItems(q) == Len(q)

\* the status values a caller of GET /queue may pass; "" is no status
StatusValues == {"", "pending", "failed"}

\* if (status) sql += AND error_message IS (NOT NULL | NULL)
MatchesStatus(row, status) ==
  IF status = "" THEN TRUE
  ELSE IF status = "failed" THEN row.error_message # NullStr
  ELSE row.error_message = NullStr

\* ORDER BY created_at DESC; rows of equal created_at keep their order
RECURSIVE InsertByCreatedAtDescending(_, _)
InsertByCreatedAtDescending(sorted, row) ==
  IF Len(sorted) = 0 THEN <<row>>
  ELSE IF Head(sorted).created_at < row.created_at THEN <<row>> \o sorted
  ELSE <<Head(sorted)>> \o InsertByCreatedAtDescending(Tail(sorted), row)

RECURSIVE OrderByCreatedAtDesc(_)
OrderByCreatedAtDesc(rows) ==
  IF Len(rows) = 0 THEN <<>>
  ELSE InsertByCreatedAtDescending(
         OrderByCreatedAtDesc(SubSeq(rows, 1, Len(rows) - 1)),
         rows[Len(rows)])

\* LIMIT ? OFFSET ?
LimitOffset(rows, limit, offset) ==
  LET skip == IF offset < 0 THEN 0 ELSE offset
      upto == IF limit < 0 \/ skip + limit > Len(rows) THEN Len(rows)
              ELSE skip + limit
  IN SubSeq(rows, skip + 1, upto)

getSyncQueue(q, status, limit, offset) ==
  LimitOffset(
    OrderByCreatedAtDesc(SelectSeq(q, LAMBDA row : MatchesStatus(row, status))),
    limit, offset)

(***************************************************************************)
(* Storage failures: any statement on the database may reject.  Each       *)
(* method of SyncService below catches the error and returns; what it      *)
(* returns is recorded in last, with last.error the error the store        *)
(* raised.  A method of TaskService catches nothing: the error leaves the  *)
(* call.                                                                   *)
(***************************************************************************)
\* the message of the error the database raises
StorageError == "storage unavailable"

\* a call that met the storage error and returned result
ReturnsOnStorageError(op, result) ==
  /\ last' = [Last(op) EXCEPT !.error = StorageError, !.returned = TRUE,
                              !.result = result]
  /\ UNCHANGED <<tasks, queue, nextSyncId, now, pass, attempts, applied,
                 overlapped, call, batchCall>>

\* sync(), outer catch: { success: false, synced_items: successCount,
\* failed_items: errorCount, details: { error: message } }
syncOnStorageError(successCount, errorCount, message) ==
  [NoResult EXCEPT !.success = FALSE, !.synced_items = successCount,
                   !.failed_items = errorCount,
                   !.details = DetailsObject(<<>>, NoMessage, message)]
\* catch: return { retried: 0, failed: 0 }
retryAllFailedOnStorageError == [NoResult EXCEPT !.retried = 0, !.failed = 0]
\* catch: return { retried: 0, failed: ids.length }
retryFailedOnStorageError(ids) ==
  [NoResult EXCEPT !.retried = 0, !.failed = Len(ids)]
\* catch: return 0
clearSyncQueueOnStorageError == [NoResult EXCEPT !.changes = 0]
\* catch: return []
getSyncQueueOnStorageError == [NoResult EXCEPT !.items = <<>>]
\* catch: return 0
getPendingSyncCountOnStorageError == [NoResult EXCEPT !.count = 0]
getFailedSyncCountOnStorageError == [NoResult EXCEPT !.count = 0]

\* the snapshot fetch of sync() rejects: successCount and errorCount are 0;
\* the passes in flight are not touched
syncStorageDown ==
  ReturnsOnStorageError("sync", syncOnStorageError(0, 0, StorageError))

retryAllFailedStorageDown ==
  ReturnsOnStorageError("retryAllFailed", retryAllFailedOnStorageError)

\* with an empty ids the method returns before it touches the store
retryFailedStorageDown(ids) ==
  /\ Len(ids) > 0
  /\ ReturnsOnStorageError("retryFailed", retryFailedOnStorageError(ids))

clearSyncQueueStorageDown ==
  ReturnsOnStorageError("clearSyncQueue", clearSyncQueueOnStorageError)

getSyncQueueStorageDown ==
  ReturnsOnStorageError("getSyncQueue", getSyncQueueOnStorageError)

getPendingSyncCountStorageDown ==
  ReturnsOnStorageError("getPendingSyncCount",
                        getPendingSyncCountOnStorageError)

getFailedSyncCountStorageDown ==
  ReturnsOnStorageError("getFailedSyncCount", getFailedSyncCountOnStorageError)

\* INSERT INTO tasks of createTask rejects: the call throws, nothing is
\* written
createTaskStorageDown == ReturnsOnStorageError("createTask", NoResult)

\* the first SELECT of updateTask or deleteTask (getTask) rejects: the call
\* throws before it has written
getTaskStorageDown(op) == ReturnsOnStorageError(MethodOf(op), NoResult)

\* UPDATE tasks of updateTask or deleteTask rejects: the call throws, the
\* record is as it was and no intent is queued
updateTaskUpdateStorageDown(c) ==
  /\ call[c].pc = "update"
  /\ call' = Returned(c, {})
  /\ last' = [Last(MethodOf(call[c].op)) EXCEPT
                !.task = call[c].id, !.error = StorageError,
                !.returned = TRUE]
  /\ UNCHANGED <<tasks, queue, nextSyncId, now, pass, attempts, applied,
                 overlapped, batchCall>>

\* the second SELECT of updateTask rejects: the call throws with the record
\* written and no intent queued
updateTaskGetStorageDown(c) ==
  /\ call[c].pc = "get"
  /\ call' = Returned(c, {})
  /\ last' = [Last("updateTask") EXCEPT
                !.task = call[c].id, !.error = StorageError,
                !.returned = TRUE]
  /\ UNCHANGED <<tasks, queue, nextSyncId, now, pass, attempts, applied,
                 overlapped, batchCall>>

\* a TaskService call whose addToSyncQueue rejects: the uuid it drew is not
\* stored, the call throws, the record it has written stays as it is and no
\* intent is queued
enqueueTaskStorageDown(c) ==
  /\ call[c].pc = "enqueue"
  /\ call' = Returned(c, {})
  /\ last' = [Last(MethodOf(call[c].op)) EXCEPT
                !.task = call[c].id, !.error = StorageError,
                !.returned = TRUE]
  /\ nextSyncId' = nextSyncId + 1
  /\ UNCHANGED <<tasks, queue, now, pass, attempts, applied, overlapped,
                 batchCall>>

\* UPDATE tasks 'synced' or DELETE FROM sync_queue of processSyncItem
\* rejects after the remote call succeeded: processSyncItem rethrows, and the
\* loop of sync() catches the error as the failure of the item
syncItemStorageDown(p) ==
  /\ pass[p].pc = "running" /\ pass[p].at \in {"update", "delete"}
  /\ applied[CurrentItem(p).id] < MaxApplied
  /\ pass' = [pass EXCEPT ![p].at = "fail", ![p].error = StorageError]
  /\ last' = [StepOf("processSyncItem", p, CurrentItem(p)) EXCEPT
                !.error = StorageError]
  /\ UNCHANGED <<tasks, queue, nextSyncId, now, attempts, applied, overlapped,
                 call, batchCall>>

\* a statement of handleSyncError rejects: the error leaves the catch block
\* of the loop, and the outer catch of sync() returns with the counts so far
\* (errorCount++ precedes handleSyncError); the items left are not handled
handleSyncErrorStorageDown(p) ==
  /\ pass[p].pc = "running" /\ pass[p].at \in {"fail", "escalate"}
  /\ LET me == pass[p]
         item == CurrentItem(p)
         errorCount == IF me.at = "fail" THEN CountError(me.errorCount, FALSE)
                       ELSE me.errorCount
     IN last' = [Last("syncItem") EXCEPT
                   !.pass = p, !.id = item.id, !.task = item.task_id,
                   !.rc = item.retry_count, !.error = StorageError,
                   !.queued = item.id \in QueueIds(queue),
                   !.returned = TRUE,
                   !.result = syncOnStorageError(me.successCount, errorCount,
                                                 StorageError)]
  /\ pass' = [pass EXCEPT ![p] = IdlePass]
  /\ UNCHANGED <<tasks, queue, nextSyncId, now, attempts, applied, overlapped,
                 call, batchCall>>

StorageDown ==
  \/ createTaskStorageDown
  \/ \E op \in {"update", "delete"} : getTaskStorageDown(op)
  \/ \E c \in Callers : updateTaskUpdateStorageDown(c)
  \/ \E c \in Callers : updateTaskGetStorageDown(c)
  \/ \E c \in Callers : enqueueTaskStorageDown(c)
  \/ \E p \in Passes : syncItemStorageDown(p)
  \/ \E p \in Passes : handleSyncErrorStorageDown(p)
  \/ syncStorageDown
  \/ retryAllFailedStorageDown
  \/ \E ids \in IdLists : retryFailedStorageDown(ids)
  \/ clearSyncQueueStorageDown
  \/ getSyncQueueStorageDown
  \/ getPendingSyncCountStorageDown
  \/ getFailedSyncCountStorageDown

(***************************************************************************)
(* POST /batch: one addToSyncQueue per operation, issued together; each    *)
(* INSERT is awaited on its own and other requests are served in between;  *)
(* when all have settled the handler answers with the tally.               *)
(***************************************************************************)
\* the operations a batch may carry: one with no data, one whose data is
\* null, and one that names no record
BatchOps ==
  {[taskId |-> "t1", operation |-> "update", data |-> [title |-> "a"]],
   [taskId |-> "t2", operation |-> "delete", data |-> NoData],
   [taskId |-> "t1", operation |-> "create", data |-> JSONnull],
   [taskId |-> NullStr, operation |-> "create", data |-> [title |-> "a"]]}

\* request bodies: operations is an array of up to two operations, or
\* something that is not an array
BatchBodies ==
  {[isArray |-> FALSE, operations |-> <<>>]}
    \cup {[isArray |-> TRUE, operations |-> ops] :
            ops \in {<<>>} \cup {<<a>> : a \in BatchOps}
                           \cup {<<a, b>> : a \in BatchOps, b \in BatchOps}}


\* the row an addToSyncQueue call of the batch inserts: the clock was read
\* when the call was issued
BatchRow(syncId, op, at) ==
  [SyncItem(syncId, op.taskId, op.operation, op.data) EXCEPT !.created_at = at]

\* mutant: a rejected enqueue keeps the later operations out (Promise.all)
batchInsertUntilFailure(q, ops, k, syncId, at) ==
  IF \E j \in 1..k : EnqueueFails(ops[j]) THEN q
  ELSE Append(q, BatchRow(syncId, ops[k], at))

\* sync_queue once the INSERT of operation k has settled: the store appends
\* the row or rejects it, whatever became of the other operations
batchInsert(q, ops, k, syncId, at) ==
  IF EnqueueFails(ops[k]) THEN q
  ELSE Append(q, BatchRow(syncId, ops[k], at))

\* what Promise.allSettled delivers for each operation: the value of the
\* fulfilled ones, the reason of the rejected ones
Settled(ops) ==
  [k \in DOMAIN ops |->
     IF EnqueueFails(ops[k])
     THEN [taskId |-> ops[k].taskId, status |-> "error",
           error |-> EnqueueError]
     ELSE [taskId |-> ops[k].taskId, status |-> "queued", error |-> NoError]]

successfulResults(settled) ==
  SelectSeq(settled, LAMBDA r : r.status = "queued")
failedResults(settled) ==
  SelectSeq(settled, LAMBDA r : r.status = "error")

\* the body of the response
BatchResponse(body) ==
  IF ~body.isArray
  THEN [NoResult EXCEPT !.http = 400, !.success = FALSE]
  ELSE LET settled == Settled(body.operations) IN
       [NoResult EXCEPT
          !.success = (Len(failedResults(settled)) = 0),
          !.processed = Len(body.operations),
          !.successful = Len(successfulResults(settled)),
          !.failed = Len(failedResults(settled)),
          !.results = successfulResults(settled) \o failedResults(settled)]

\* the handler answers: res.json of the tally (res.status(400) first for a
\* body that is no array)
batchResponds(body, appended) ==
  last' = [Last("batch") EXCEPT !.returned = TRUE, !.appended = appended,
                                !.result = BatchResponse(body)]

\* the INSERT of operation k of the batch settles; after the last one
\* Promise.allSettled resolves and the handler answers
batchSettle(ops, k, at, appended) ==
  LET fails == EnqueueFails(ops[k])
      ids == IF fails THEN appended ELSE appended \cup {nextSyncId}
  IN /\ queue' = batchInsert(queue, ops, k, nextSyncId, at)
     /\ nextSyncId' = IF fails THEN nextSyncId ELSE nextSyncId + 1
     /\ IF k = Len(ops)
        THEN /\ batchCall' = IdleBatch
             /\ batchResponds([isArray |-> TRUE, operations |-> ops], ids)
        ELSE /\ batchCall' = [pc |-> "insert", ops |-> ops, idx |-> k,
                              at |-> at, appended |-> ids]
             /\ last' = [Last("addToSyncQueue") EXCEPT
                           !.id = IF fails THEN 0 ELSE nextSyncId,
                           !.task = ops[k].taskId]
     /\ UNCHANGED <<tasks, now, pass, attempts, applied, overlapped, call>>

\* POST /batch up to its first settled INSERT: a body that is no array or an
\* empty one is answered at once; otherwise operations.map issues one
\* addToSyncQueue per operation, each reading the clock, and the handler
\* awaits Promise.allSettled
batch(body) ==
  /\ batchCall.pc = "idle"
  /\ IF ~body.isArray \/ Len(body.operations) = 0
     THEN /\ batchResponds(body, {})
          /\ UNCHANGED <<tasks, queue, nextSyncId, now, pass, attempts,
                         applied, overlapped, call, batchCall>>
     ELSE /\ nextSyncId + InFlight
               + Len(SelectSeq(body.operations, LAMBDA op : ~EnqueueFails(op)))
               <= MaxIntents + 1
          /\ batchSettle(body.operations, 1, now, {})

\* the next INSERT of the batch in flight settles
batchAddToSyncQueue ==
  /\ batchCall.pc = "insert"
  /\ batchSettle(batchCall.ops, batchCall.idx + 1, batchCall.at,
                 batchCall.appended)

(***************************************************************************)
(* Specifications.                                                         *)
(***************************************************************************)
\* the steps of the TaskService calls of the callers in C
TaskServiceSteps(C) ==
  \/ \E c \in C, taskData \in CreateInputs : createTask(c, taskData)
  \/ \E c \in C, id \in Range(TaskIds), updates \in UpdateInputs :
       updateTask(c, id, updates)
  \/ \E c \in C : updateTaskUpdate(c)
  \/ \E c \in C : updateTaskGet(c)
  \/ \E c \in C, id \in Range(TaskIds) : deleteTask(c, id)
  \/ \E c \in C : deleteTaskUpdate(c)
  \/ \E c \in C : enqueueTask(c)

Mutate ==
  \/ TaskServiceSteps(Callers)
  \/ \E op \in EnqueueInputs : enqueue(op)

\* the administration calls that change the queue; a retryFailed that
\* resets nothing changes no table and is part of NextRetry
Administer ==
  \/ retryAllFailed
  \/ \E ids \in IdLists :
       retryFailedChanges(queue, ids) > 0 /\ retryFailed(ids)
  \/ clearSyncQueue

\* the caller starts a pass only when none is in flight
syncStartAlone(p) ==
  /\ \A q \in Passes : pass[q].pc = "idle"
  /\ syncStart(p)

\* at most one pass in flight, as the callers are asked to ensure; all other
\* requests are served between two awaited calls of the pass
Next ==
  \/ Tick
  \/ Mutate
  \/ Administer
  \/ \E p \in Passes : syncStartAlone(p)
  \/ \E p \in Passes : syncItem(p)

Spec == Init /\ [][Next]_vars

\* record mutations and passes, and statements that find the store
\* unavailable
NextFaults ==
  \/ TaskServiceSteps(Callers)
  \/ \E p \in Passes : syncStartAlone(p)
  \/ \E p \in Passes : syncItem(p)
  \/ StorageDown

SpecFaults == Init /\ [][NextFaults]_vars

\* retryFailed with every id list, those that reset nothing included, next
\* to enqueues and passes that exhaust intents
NextRetry ==
  \/ createTask(1, [title |-> "a"])
  \/ enqueueTask(1)
  \/ enqueue(ForcedFailure)
  \/ \E ids \in IdLists : retryFailed(ids)
  \/ \E p \in Passes : syncStartAlone(p)
  \/ \E p \in Passes : syncItem(p)

SpecRetry == Init /\ [][NextRetry]_vars

\* batch submissions, INSERT by INSERT, next to record creation, passes and
\* the purge
NextBatch ==
  \/ Tick
  \/ \E body \in BatchBodies : batch(body)
  \/ batchAddToSyncQueue
  \/ \E taskData \in CreateInputs : createTask(1, taskData)
  \/ enqueueTask(1)
  \/ clearSyncQueue
  \/ \E p \in Passes : syncStartAlone(p)
  \/ \E p \in Passes : syncItem(p)

SpecBatch == Init /\ [][NextBatch]_vars

\* one TaskService call at a time, direct enqueues, resets and the purge next
\* to one pass at a time
NextLive ==
  \/ TaskServiceSteps({1})
  \/ enqueue(ForcedFailure)
  \/ retryAllFailed
  \/ clearSyncQueue
  \/ \E p \in Passes : syncStartAlone(p)
  \/ \E p \in Passes : syncItem(p)

\* the scheduling the claims on progress assume: sync() is invoked again and
\* again, and every remote call and every statement of a pass returns
SpecLive ==
  /\ Init /\ [][NextLive]_vars
  /\ WF_vars(\E p \in Passes : syncStartAlone(p))
  /\ WF_vars(\E p \in Passes : syncItem(p))

\* nothing excludes a second sync() while one is in flight
NextOverlap ==
  \/ createTask(1, [title |-> "a"])
  \/ enqueueTask(1)
  \/ enqueue(ForcedFailure)
  \/ retryAllFailed
  \/ \E p \in Passes : syncStart(p)
  \/ \E p \in Passes : syncItem(p)

SpecOverlap == Init /\ [][NextOverlap]_vars

\* the requests of Spec without the purge and with one TaskService call at
\* a time: intents leave the queue only through a pass, and no two mutations
\* overlap; the statements of the call in flight interleave with the pass
\* and the other requests
NextNoPurge ==
  \/ Tick
  \/ TaskServiceSteps({1})
  \/ \E op \in EnqueueInputs : enqueue(op)
  \/ retryAllFailed
  \/ \E ids \in IdLists :
       retryFailedChanges(queue, ids) > 0 /\ retryFailed(ids)
  \/ \E p \in Passes : syncStartAlone(p)
  \/ \E p \in Passes : syncItem(p)

SpecNoPurge == Init /\ [][NextNoPurge]_vars

\* the store after createTask({title: 'a'}) and a pass that applied its
\* intent, all at time 1; the intent ids are counted from here
InitSynced ==
  /\ now = 1
  /\ tasks = ("t1" :> [TaskToRow(NewTask("t1", [title |-> "a"])) EXCEPT
                         !.sync_status = "synced", !.last_synced_at = now])
  /\ queue = <<>>
  /\ nextSyncId = 1
  /\ pass = [p \in Passes |-> IdlePass]
  /\ call = [c \in Callers |-> IdleCall]
  /\ batchCall = IdleBatch
  /\ attempts = [i \in 1..MaxIntents |-> 0]
  /\ applied = [i \in 1..MaxIntents |-> 0]
  /\ overlapped = FALSE
  /\ last = Last("init")

\* two TaskService calls at a time on a synced record, next to the clock and
\* to one pass at a time
NextMutations ==
  \/ Tick
  \/ TaskServiceSteps(Callers)
  \/ \E p \in Passes : syncStartAlone(p)
  \/ \E p \in Passes : syncItem(p)

SpecMutations == InitSynced /\ [][NextMutations]_vars

\* direct enqueues, both resets and the purge next to passes that may
\* overlap
NextRace ==
  \/ enqueue(DirectCreate)
  \/ enqueue(ForcedFailure)
  \/ retryAllFailed
  \/ \E id \in 1..MaxIntents :
       retryFailedChanges(queue, <<id>>) > 0 /\ retryFailed(<<id>>)
  \/ clearSyncQueue
  \/ \E p \in Passes : syncStart(p)
  \/ \E p \in Passes : syncItem(p)

SpecRace == Init /\ [][NextRace]_vars

TypeOK ==
  /\ nextSyncId \in 1..(MaxIntents + 1)
  /\ now \in 1..MaxTime
  /\ \A i \in DOMAIN queue : queue[i].retry_count \in 0..maxRetries
  /\ \A c \in Callers :
       /\ call[c].pc \in {"idle", "update", "get", "enqueue"}
       /\ call[c].pc # "idle" => call[c].id \in DOMAIN tasks
       /\ call[c].pc = "enqueue" => Len(call[c].payload) = 1
  /\ batchCall.pc \in {"idle", "insert"}
  /\ batchCall.pc = "idle" <=> batchCall = IdleBatch
  /\ batchCall.pc = "insert" =>
       /\ batchCall.idx \in 1..(Len(batchCall.ops) - 1)
       /\ batchCall.at \in 1..now
       /\ nextSyncId + InFlight + BatchInFlight <= MaxIntents + 1
  /\ \A p \in Passes :
       /\ pass[p].pc \in {"idle", "running"}
       /\ pass[p].pc = "idle" <=> pass[p] = IdlePass
       /\ pass[p].pc = "running" =>
            /\ pass[p].idx \in DOMAIN pass[p].items
            /\ pass[p].at \in {"call", "update", "delete", "fail", "escalate"}
            /\ pass[p].at \in {"fail", "escalate"} <=> pass[p].error # NoError
            /\ pass[p].at \in {"update", "delete"} =>
                 applied[CurrentItem(p).id] >= 1

(***************************************************************************)
(* Properties.                                                             *)
(***************************************************************************)
\* the snapshot items pass p has still to attempt: the item in hand and the
\* ones after it, without the item in hand once its failure is recorded
Remaining(p) ==
  (IF pass[p].at = "escalate" THEN pass[p].idx + 1 ELSE pass[p].idx)
    ..Len(pass[p].items)

\* pass p has applied the intent to the remote and has yet to remove it
InHand(p, id) ==
  /\ pass[p].pc = "running" /\ pass[p].at \in {"update", "delete"}
  /\ CurrentItem(p).id = id

\* pass p is through with an item that failed: the UPDATE of sync_queue when
\* the failure does not exhaust the item, the UPDATE of tasks when it does
FailedItemDone(p) ==
  \/ syncItemFail(p) /\ ~Escalates(CurrentItem(p))
  \/ syncItemEscalate(p)

\* C1 (at most one pass in flight): of an intent whose remote apply has
\* succeeded, the record update of the pass leaves its Record (when the
\* tasks table holds it) with
\* sync_status = synced and a non-null last_synced_at, whatever the Record's
\* prior status and also when it is soft-deleted; the removal that follows
\* leaves the intent out of the queue and changes no Record, and the Record
\* then has a non-null last_synced_at and is synced, or pending when a
\* mutation of the Record was served after the record update.
C1_SuccessSyncsRecord ==
  [][\A p \in Passes :
       LET item == CurrentItem(p) IN
       /\ syncItemUpdate(p) =>
            /\ applied[item.id] >= 1
            /\ item.task_id \in DOMAIN tasks =>
                 /\ tasks'[item.task_id].sync_status = "synced"
                 /\ tasks'[item.task_id].last_synced_at # NullTime
       /\ syncItemDelete(p) =>
            /\ item.id \notin QueueIds(queue')
            /\ tasks' = tasks
            /\ item.task_id \in DOMAIN tasks =>
                 /\ tasks'[item.task_id].sync_status \in {"synced", "pending"}
                 /\ tasks'[item.task_id].last_synced_at # NullTime]_vars

\* C1 as stated: after the step that handles an intent whose remote apply
\* succeeds (the remote call, the record update and the removal) the intent
\* is out of the queue and its Record is synced with a non-null
\* last_synced_at.
C1_Original ==
  [][\A p \in Passes :
       syncItemDelete(p) =>
         LET item == CurrentItem(p) IN
         /\ item.id \notin QueueIds(queue')
         /\ item.task_id \in DOMAIN tasks =>
              /\ tasks'[item.task_id].sync_status = "synced"
              /\ tasks'[item.task_id].last_synced_at # NullTime]_vars

\* C1 witness: an intent of a soft-deleted Record in status error has just
\* succeeded.
C1_Witness ==
  /\ last.op = "syncItem" /\ last.error = NoError /\ last.queued
  /\ last.prev = "error"
  /\ last.task \in DOMAIN tasks
  /\ tasks[last.task].is_deleted = 1
  /\ tasks[last.task].sync_status = "synced"
  /\ last.id \notin QueueIds(queue)

\* C2: the recording of a failure keeps a queued intent in the queue and
\* changes no Record, and is followed by the escalation exactly when it
\* brings the stored retry_count to maxRetries; the escalation sets the
\* Record's sync_status to error and leaves the queue as it is, so a failure
\* that leaves retry_count below maxRetries changes no Record.
C2_ExhaustionEscalates ==
  [][\A p \in Passes :
       LET item == CurrentItem(p) IN
       /\ (syncItemFail(p) /\ item.id \in QueueIds(queue)) =>
            /\ item.id \in QueueIds(queue')
            /\ tasks' = tasks
            /\ RowOf(queue', item.id).retry_count = maxRetries
                 <=> (pass'[p].pc = "running" /\ pass'[p].at = "escalate")
       /\ syncItemEscalate(p) =>
            /\ item.retry_count + 1 = maxRetries
            /\ queue' = queue
            /\ item.task_id \in DOMAIN tasks =>
                 tasks'[item.task_id].sync_status = "error"
       /\ FailedItemDone(p) /\ item.retry_count + 1 < maxRetries =>
            tasks' = tasks]_vars

\* C2 witness: the third failure of an intent has just put its pending
\* Record in status error, the intent still queued.
C2_Witness ==
  /\ last.op = "syncItem" /\ last.error # NoError /\ last.queued
  /\ last.rc = maxRetries - 1
  /\ last.prev = "pending"
  /\ last.id \in QueueIds(queue)
  /\ RowOf(queue, last.id).retry_count = maxRetries
  /\ last.task \in DOMAIN tasks
  /\ tasks[last.task].sync_status = "error"

\* C3: no snapshot holds an intent whose retry_count was >= maxRetries at the
\* fetch, and an intent a pass has still to handle is, while queued, not
\* exhausted: an exhausted intent is attempted by no pass until it is reset.
C3_SnapshotExcludesExhausted ==
  \A p \in Passes :
    /\ \A i \in DOMAIN pass[p].items :
         pass[p].items[i].retry_count < maxRetries
    /\ pass[p].pc = "running" =>
         \A i \in Remaining(p) :
           pass[p].items[i].id \in QueueIds(queue) =>
             RowOf(queue, pass[p].items[i].id).retry_count < maxRetries

\* C3 witness: a pass is in flight whose snapshot leaves out a queued,
\* exhausted intent.
C3_Witness ==
  \E p \in Passes :
    /\ pass[p].pc = "running"
    /\ \E i \in DOMAIN queue :
         /\ queue[i].retry_count >= maxRetries
         /\ \A k \in DOMAIN pass[p].items : pass[p].items[k].id # queue[i].id

\* C4: an intent leaves the queue only in the removal by which a pass
\* follows the successful remote apply of this intent, or by clearSyncQueue.
C4_RemovedOnlyOnSuccess ==
  [][\A id \in QueueIds(queue) \ QueueIds(queue') :
       \/ \E p \in Passes :
            /\ syncItemDelete(p)
            /\ CurrentItem(p).id = id
            /\ applied[id] >= 1
       \/ clearSyncQueue]_vars

\* C4 witness: a pass has just removed an intent after its success while an
\* exhausted intent stays queued.
C4_Witness ==
  /\ last.op = "syncItem" /\ last.error = NoError /\ last.queued
  /\ last.id \notin QueueIds(queue)
  /\ \E i \in DOMAIN queue : queue[i].retry_count = maxRetries

\* C5: a pass handles the intents of its snapshot one by one in ascending
\* created_at order, and of two snapshot intents of the same Record the one
\* enqueued first (the smaller sync id) comes first; details lists the
\* handled intents in that order.
C5_SnapshotOrder ==
  /\ \A p \in Passes :
       LET items == pass[p].items IN
       /\ \A i, j \in DOMAIN items :
            i < j =>
              /\ items[i].created_at <= items[j].created_at
              /\ items[i].task_id = items[j].task_id =>
                   items[i].id < items[j].id
       /\ pass[p].pc = "running" =>
            SeqIds(pass[p].details) = SubSeq(SeqIds(items), 1, pass[p].idx - 1)
  /\ (last.op = "syncItem" /\ last.returned) =>
       SeqIds(last.result.details.intents) = last.result.snapshot

\* C5 as stated: a pass handles its snapshot in ascending created_at order,
\* one intent after the other, and consequently two intents of the same
\* Record are attempted in the order in which the mutations that enqueued
\* them occurred: an intent that a TaskService call has just enqueued is not
\* behind a queued intent of a call that wrote the same Record after it.
C5_Original ==
  /\ C5_SnapshotOrder
  /\ (last.op \in {"createTask", "updateTask", "deleteTask"} /\ last.returned)
       => last.overtaken \cap QueueIds(queue) = {}

\* C5 witness: a pass has handled the older of two intents of one Record,
\* enqueued at different times, and the newer one is next.
C5_Witness ==
  \E p \in Passes :
    /\ pass[p].pc = "running" /\ pass[p].idx = 2
    /\ Len(pass[p].details) = 1
    /\ pass[p].items[1].task_id = pass[p].items[2].task_id
    /\ pass[p].items[1].created_at < pass[p].items[2].created_at

\* C6: the recording of the failure of an item (remote failure, forced
\* failure, unknown operation, malformed payload) leaves the set of queued
\* intents and every other intent as they were, and changes of the failing
\* intent only retry_count (one more), error_message and the update stamp;
\* once through with the failed item the pass goes on with the next
\* snapshot item, and when it returns every snapshot item has been handled.
C6_FailureIsolated ==
  [][\A p \in Passes :
       LET item == CurrentItem(p) IN
       /\ syncItemFail(p) =>
            /\ pass[p].error # NoError
            /\ Len(queue') = Len(queue)
            /\ \A i \in DOMAIN queue :
                 queue'[i] =
                   IF queue[i].id = item.id
                   THEN [queue[i] EXCEPT
                           !.retry_count = queue[i].retry_count + 1,
                           !.error_message = pass[p].error,
                           !.updated_at = now]
                   ELSE queue[i]
       /\ syncItemEscalate(p) => queue' = queue
       /\ FailedItemDone(p) =>
            /\ pass[p].idx < Len(pass[p].items) =>
                 /\ pass'[p].pc = "running"
                 /\ pass'[p].items = pass[p].items
                 /\ pass'[p].idx = pass[p].idx + 1
            /\ pass[p].idx = Len(pass[p].items) =>
                 /\ last'.returned
                 /\ Len(last'.result.details.intents)
                      = Len(pass[p].items)]_vars

\* C6 witness: the first of two snapshot items has just failed, its sibling
\* is queued untouched and the pass is still running.
C6_Witness ==
  /\ last.op = "syncItem" /\ last.error # NoError /\ last.queued
  /\ pass[last.pass].pc = "running"
  /\ \E i \in DOMAIN queue :
       /\ queue[i].id # last.id
       /\ queue[i].retry_count = 0
       /\ queue[i].error_message = NullStr
       /\ queue[i].id = CurrentItem(last.pass).id

\* what a pass that has just returned reports
PassReturned == last.op = "syncItem" /\ last.returned
\* sync() has just returned from an empty snapshot
EmptyPassReturned == last.op = "sync" /\ last.returned

SuccessIds(details) ==
  {details[k].id : k \in {n \in DOMAIN details : details[n].status = "success"}}

\* the part of C7 about a pass over an empty snapshot: it reports success
\* with 0 synced and 0 failed, and queue, tasks and passes are as before
EmptyPassResult ==
  EmptyPassReturned =>
    /\ last.result.success
    /\ last.result.synced_items = 0
    /\ last.result.failed_items = 0
    /\ Len(PendingItems(queue)) = 0
    /\ \A p \in Passes : pass[p] = IdlePass

\* C7 as stated: synced_items + failed_items is the size of the snapshot,
\* synced_items is the number of intents the pass removed, details has one
\* entry per snapshot intent, success iff the pass removed it, and
\* success = (failed_items = 0).
C7_Original ==
  /\ PassReturned =>
       LET r == last.result IN
       /\ r.synced_items + r.failed_items = Len(r.snapshot)
       /\ r.synced_items = Cardinality(r.removed)
       /\ SeqIds(r.details.intents) = r.snapshot
       /\ \A k \in DOMAIN r.details.intents :
            r.details.intents[k].status = "success"
              <=> r.details.intents[k].id \in r.removed
       /\ r.success = (r.failed_items = 0)
  /\ EmptyPassResult

\* C7 amended (at most one pass in flight): synced_items + failed_items is
\* the size of the snapshot, details has one entry per snapshot intent,
\* synced_items is the number of entries with status success,
\* success = (failed_items = 0); every intent the pass removed has status
\* success, and an intent that was still queued when the pass ran its queue
\* statement for it (the DELETE after its remote apply, the retry_count
\* UPDATE after its failure) has status success iff the pass removed it, so
\* that synced_items is the number of removed intents when every snapshot
\* intent was still queued at that statement.  A pass over an empty
\* snapshot returns success with 0 synced and 0 failed and changes no state.
C7_PassResult ==
  /\ PassReturned =>
       LET r == last.result IN
       /\ r.synced_items + r.failed_items = Len(r.snapshot)
       /\ SeqIds(r.details.intents) = r.snapshot
       /\ r.details.message = NoMessage /\ r.details.error = NoError
       /\ r.synced_items = Cardinality(SuccessIds(r.details.intents))
       /\ r.removed \subseteq SuccessIds(r.details.intents)
       /\ \A k \in DOMAIN r.details.intents :
            r.details.intents[k].id \notin r.missing =>
              (r.details.intents[k].status = "success"
                 <=> r.details.intents[k].id \in r.removed)
       /\ r.missing = {} => r.synced_items = Cardinality(r.removed)
       /\ r.success = (r.failed_items = 0)
  /\ EmptyPassResult

\* C7 witness: a pass over two intents has returned with one synced and
\* removed and one failed.
C7_Witness ==
  /\ PassReturned
  /\ Len(last.result.snapshot) = 2
  /\ last.result.synced_items = 1 /\ last.result.failed_items = 1
  /\ Cardinality(last.result.removed) = 1
  /\ ~last.result.success

\* C8: with one pass in flight the retry_count of a queued intent is the
\* number of attempts made on it since its enqueue or last reset, never more
\* than maxRetries; right after the third failure the Record is in status
\* error and the intent, unless it was reset or purged while the pass wrote
\* the Record, is failed with retry_count maxRetries; an exhausted intent is
\* in no pass's remaining work.
C8_RetryBudget ==
  /\ \A i \in DOMAIN queue :
       /\ queue[i].retry_count = attempts[queue[i].id]
       /\ attempts[queue[i].id] <= maxRetries
  /\ (last.op = "syncItem" /\ last.error # NoError /\ last.queued
        /\ last.rc = maxRetries - 1) =>
       /\ (last.id \in QueueIds(queue) /\ attempts[last.id] > 0) =>
            /\ IsFailed(RowOf(queue, last.id))
            /\ RowOf(queue, last.id).retry_count = maxRetries
       /\ last.task \in DOMAIN tasks =>
            tasks[last.task].sync_status = "error"
  /\ \A p \in Passes :
       pass[p].pc = "running" =>
         \A i \in Remaining(p) :
           attempts[pass[p].items[i].id] < maxRetries

\* C8 witness: an intent has failed in three passes; it is exhausted, its
\* Record in status error, and a later pass runs without it.
C8_Witness ==
  \E i \in DOMAIN queue :
    /\ queue[i].retry_count = maxRetries
    /\ attempts[queue[i].id] = maxRetries
    /\ queue[i].task_id \in DOMAIN tasks
    /\ tasks[queue[i].task_id].sync_status = "error"
    /\ \E p \in Passes :
         /\ pass[p].pc = "running"
         /\ queue[i].id \notin Range(SeqIds(pass[p].items))

\* an exhausted row after a reset: retry_count 0, error_message NULL, the
\* other columns as they were
IsResetOf(after, before) ==
  /\ after.retry_count = 0
  /\ after.error_message = NullStr
  /\ after = [before EXCEPT !.retry_count = 0, !.error_message = NullStr]

Exhausted(q) == {i \in DOMAIN q : q[i].retry_count >= maxRetries}

\* C9: retry_all_failed resets every intent with retry_count >= 3 to
\* retry_count 0 and no error_message, leaves every other intent as it was,
\* removes and adds none, and reports retried = the number it reset.
C9_RetryAllResets ==
  [][retryAllFailed =>
       /\ Len(queue') = Len(queue)
       /\ \A i \in DOMAIN queue :
            IF i \in Exhausted(queue)
            THEN IsResetOf(queue'[i], queue[i])
            ELSE queue'[i] = queue[i]
       /\ last'.result.retried = Cardinality(Exhausted(queue))
       /\ last'.result.failed = 0
       /\ tasks' = tasks]_vars

\* C9 witness: retry_all_failed has reset an intent while another intent,
\* pending with one recorded failure, has kept its retry_count and message.
C9_Witness ==
  /\ last.op = "retryAllFailed"
  /\ last.result.retried >= 1
  /\ \E i \in DOMAIN queue :
       queue[i].retry_count = 0 /\ attempts[queue[i].id] = 0
  /\ \E i \in DOMAIN queue :
       /\ queue[i].retry_count > 0
       /\ queue[i].retry_count < maxRetries
       /\ queue[i].error_message # NullStr

\* the positions of ids that name a queued exhausted intent
Hits(q, ids) ==
  {k \in DOMAIN ids :
     \E i \in Exhausted(q) : q[i].id = ids[k]}

\* C10 as stated: retry_selected(ids) resets exactly the exhausted intents
\* named in ids, leaves the others unchanged, returns retried = the number of
\* intents reset and failed = the number of given ids that did not lead to a
\* reset, and retried + failed = length of ids.
C10_Original ==
  [][\A ids \in IdLists :
       retryFailed(ids) =>
         /\ Len(queue') = Len(queue)
         /\ \A i \in DOMAIN queue :
              IF i \in Exhausted(queue) /\ IdIn(ids, queue[i].id)
              THEN IsResetOf(queue'[i], queue[i])
              ELSE queue'[i] = queue[i]
         /\ last'.result.retried =
              Cardinality({i \in Exhausted(queue) : IdIn(ids, queue[i].id)})
         /\ last'.result.failed =
              Cardinality(DOMAIN ids \ Hits(queue, ids))
         /\ last'.result.retried + last'.result.failed = Len(ids)]_vars

\* no id is mentioned twice in ids
NoRepetition(ids) ==
  \A j \in DOMAIN ids : \A k \in DOMAIN ids : ids[j] = ids[k] => j = k

\* C10 amended: retry_selected(ids) resets exactly the exhausted intents
\* named in ids and leaves the others unchanged; it returns retried = the
\* number of intents reset and failed = length of ids - retried, so that
\* retried + failed = length of ids; when ids mentions no id twice, failed
\* is the number of given ids that did not lead to a reset (still-pending
\* ids and ids that name no queued intent).
C10_RetrySelected ==
  [][\A ids \in IdLists :
       retryFailed(ids) =>
         /\ Len(queue') = Len(queue)
         /\ \A i \in DOMAIN queue :
              IF i \in Exhausted(queue) /\ IdIn(ids, queue[i].id)
              THEN IsResetOf(queue'[i], queue[i])
              ELSE queue'[i] = queue[i]
         /\ last'.op = "retryFailed" /\ last'.returned
         /\ last'.result.retried =
              Cardinality({i \in Exhausted(queue) : IdIn(ids, queue[i].id)})
         /\ last'.result.failed = Len(ids) - last'.result.retried
         /\ last'.result.retried + last'.result.failed = Len(ids)
         /\ NoRepetition(ids) =>
              last'.result.failed =
                Cardinality(DOMAIN ids \ Hits(queue, ids))]_vars

\* C10 witness: a retry_selected call has returned retried = 1 and
\* failed = 1 with one intent reset and another one, which has failed
\* before, still pending with its retry_count.
C10_Witness ==
  /\ last.op = "retryFailed" /\ last.returned
  /\ last.result.retried = 1 /\ last.result.failed = 1
  /\ \E i \in DOMAIN queue :
       queue[i].retry_count = 0 /\ attempts[queue[i].id] = 0
  /\ \E i \in DOMAIN queue :
       /\ queue[i].retry_count > 0
       /\ queue[i].retry_count < maxRetries

\* the ids a listing returns
ListedIds(status, limit, offset) ==
  Range(SeqIds(getSyncQueue(queue, status, limit, offset)))

\* C11 as stated: status = failed lists exactly the intents with
\* retry_count >= maxRetries and status = pending exactly those with
\* retry_count < maxRetries (every page is a part of them, the page that
\* holds the whole queue is all of them), and the listings have as many
\* rows as getFailedSyncCount and getPendingSyncCount report.
C11_Original ==
  /\ \A limit \in -1..MaxIntents, offset \in -1..MaxIntents :
       /\ ListedIds("failed", limit, offset)
            \subseteq {queue[i].id : i \in {n \in DOMAIN queue : IsFailed(queue[n])}}
       /\ ListedIds("pending", limit, offset)
            \subseteq {queue[i].id : i \in {n \in DOMAIN queue : IsPending(queue[n])}}
  /\ Len(getSyncQueue(queue, "failed", MaxIntents, 0)) = getFailedSyncCount(queue)
  /\ Len(getSyncQueue(queue, "pending", MaxIntents, 0)) = getPendingSyncCount(queue)

\* the step appends exactly one intent, for this record and operation, with
\* retry_count 0 and no error_message, and leaves the queued rows as they were
AppendsOne(operation, id) ==
  /\ Len(queue') = Len(queue) + 1
  /\ SubSeq(queue', 1, Len(queue)) = queue
  /\ LET row == queue'[Len(queue')] IN
       /\ row.operation = operation
       /\ row.task_id = id
       /\ row.retry_count = 0
       /\ row.error_message = NullStr
       /\ row.id \notin QueueIds(queue)

\* the record exists and is not soft-deleted
Live(id) == id \in DOMAIN tasks /\ ~ToBoolean(tasks[id].is_deleted)

\* the step changes no record other than id
OnlyRecord(id) ==
  /\ DOMAIN tasks \subseteq DOMAIN tasks'
  /\ \A t \in DOMAIN tasks : t # id => tasks'[t] = tasks[t]

\* call c has written its record (INSERT or UPDATE) and has not returned
Wrote(c) == call[c].pc \in {"get", "enqueue"}

\* C12 as stated: every createTask, updateTask and deleteTask that takes
\* effect (has written a record) appends exactly one intent by the time it
\* returns, with the matching operation, the mutated record's id,
\* retry_count 0 and no error_message; an update or delete of a record that
\* does not exist or is soft-deleted changes no record.
C12_Original ==
  [][/\ \A c \in Callers :
          (Wrote(c) /\ call'[c].pc = "idle") =>
            AppendsOne(call[c].op, call[c].id) /\ tasks' = tasks
     /\ \A c \in Callers :
          (updateTaskUpdate(c) \/ deleteTaskUpdate(c)) =>
            Live(call[c].id) /\ OnlyRecord(call[c].id)]_vars

\* what does hold: createTask writes one new record; an updateTask or a
\* deleteTask goes on to its UPDATE only when getTask has found the record
\* (it exists and is not soft-deleted at that moment), and its UPDATE
\* changes that record only; a call that reaches addToSyncQueue appends
\* exactly one intent with its operation, its record's id, retry_count 0
\* and no error_message, and changes no record in that step.
C12_EnqueueAppendsOne ==
  [][/\ \A c \in Callers, taskData \in CreateInputs :
          createTask(c, taskData) =>
            \E id \in DOMAIN tasks' \ DOMAIN tasks :
              /\ DOMAIN tasks' = DOMAIN tasks \cup {id}
              /\ OnlyRecord(id) /\ queue' = queue
     /\ \A c \in Callers :
          (call[c].pc = "idle" /\ call'[c].pc = "update") =>
            Live(call'[c].id) /\ tasks' = tasks /\ queue' = queue
     /\ \A c \in Callers :
          (updateTaskUpdate(c) \/ deleteTaskUpdate(c)) =>
            OnlyRecord(call[c].id) /\ queue' = queue
     /\ \A c \in Callers :
          enqueueTask(c) =>
            AppendsOne(call[c].op, call[c].id) /\ tasks' = tasks]_vars

\* C12 witness of what holds: a deleteTask has returned after appending the
\* delete intent of a record that was synced; the record is soft-deleted.
C12_Witness ==
  /\ last.op = "deleteTask" /\ last.returned
  /\ ToBoolean(tasks[last.task].is_deleted)
  /\ \E i \in DOMAIN queue :
       /\ queue[i].id = last.id
       /\ queue[i].operation = "delete" /\ queue[i].task_id = last.task
       /\ queue[i].retry_count = 0 /\ queue[i].error_message = NullStr

\* the payload of the intent the step appended is the Task object of the
\* record as the store holds it after the step
PayloadIsResultingState(id) ==
  LET row == queue'[Len(queue')] IN
  /\ Len(queue') = Len(queue) + 1
  /\ JSONparse(row.data) = <<RowToTask(tasks'[id])>>

\* C13 as stated: the payload of the intent enqueued by a create, update or
\* delete is a full snapshot of the record state that results from the
\* mutation; for a delete it shows is_deleted = true, the new updated_at and
\* sync_status pending.
C13_Original ==
  [][\A c \in Callers :
       enqueueTask(c) =>
         /\ PayloadIsResultingState(call[c].id)
         /\ call[c].op = "delete" =>
              JSONparse(queue'[Len(queue')].data)[1].is_deleted]_vars

\* what does hold: the payload is the Task object the call holds when it
\* reaches addToSyncQueue: for a create the task that was inserted, for an
\* update the record as getTask read it after the UPDATE, for a delete the
\* record as getTask read it before the UPDATE (not soft-deleted).
C13_PayloadOfCreateAndUpdate ==
  [][/\ \A c \in Callers, taskData \in CreateInputs :
          createTask(c, taskData) =>
            call'[c].payload = <<RowToTask(tasks'[call'[c].id])>>
     /\ \A c \in Callers :
          (call[c].pc = "get" /\ call'[c].pc = "enqueue") =>
            call'[c].payload = <<RowToTask(tasks[call[c].id])>>
     /\ \A c \in Callers :
          (call[c].pc = "idle" /\ call'[c].pc = "update"
             /\ call'[c].op = "delete") =>
            /\ call'[c].payload = <<RowToTask(tasks[call'[c].id])>>
            /\ ~call'[c].payload[1].is_deleted
     /\ \A c \in Callers :
          (call[c].pc = "update" /\ call'[c].pc = "enqueue") =>
            call'[c].payload = call[c].payload
     /\ \A c \in Callers :
          enqueueTask(c) =>
            JSONparse(queue'[Len(queue')].data) = call[c].payload]_vars

\* C15: clear_queue removes every intent whatever its retry_count, returns
\* the number removed and changes no Record; while the queue is empty no
\* step other than an enqueue puts an intent into it (a pass in flight over
\* an older snapshot re-creates none), and the pending, failed and total
\* counts of an empty queue are 0.
C15_ClearQueue ==
  [][/\ clearSyncQueue =>
          /\ Len(queue') = 0
          /\ last'.result.changes = Len(queue)
          /\ tasks' = tasks
     /\ (Len(queue) = 0 /\ nextSyncId' = nextSyncId) =>
          /\ Len(queue') = 0
          /\ getPendingSyncCount(queue') = 0
          /\ getFailedSyncCount(queue') = 0
          /\ getTotalSyncItems(queue') = 0]_vars

\* C15 witness: the queue was purged while a pass was in flight; the pass has
\* since reached a purged intent, failed on it and recorded the failure for
\* a row that is gone; the queue is still empty.
C15_Witness ==
  /\ last.op = "syncItem"
  /\ ~last.queued
  /\ last.error # NoError
  /\ Len(queue) = 0
  /\ getTotalSyncItems(queue) = 0

\* the ids of the snapshot pass p works on
SnapshotIds(p) == Range(SeqIds(pass[p].items))

\* C19: a pass works on the snapshot fetched at its start.  A step of the
\* pass handles the next snapshot intent and leaves every queued intent that
\* is not in the snapshot exactly as it was; no step of anything else
\* changes the snapshot of a pass in flight; the result counts and lists the
\* snapshot intents only; and the snapshot a pass fetches holds every intent
\* that is then queued with retry_count < maxRetries, the ones enqueued
\* during an earlier pass included.
C19_SnapshotIsolation ==
  [][/\ \A p \in Passes :
          syncItem(p) =>
            /\ pass[p].items[pass[p].idx].id \in SnapshotIds(p)
            /\ \A i \in DOMAIN queue :
                 queue[i].id \notin SnapshotIds(p) =>
                   \E j \in DOMAIN queue' : queue'[j] = queue[i]
            /\ pass'[p].pc = "idle" =>
                 /\ last'.op = "syncItem" /\ last'.returned
                 /\ last'.result.snapshot = SeqIds(pass[p].items)
                 /\ SeqIds(last'.result.details.intents) = SeqIds(pass[p].items)
                 /\ last'.result.synced_items + last'.result.failed_items
                      = Len(pass[p].items)
     /\ \A p \in Passes :
          (pass[p].pc = "running" /\ pass'[p].pc = "running") =>
            pass'[p].items = pass[p].items
     /\ \A p \in Passes :
          (pass[p].pc = "idle" /\ pass'[p].pc = "running") =>
            SnapshotIds(p)' =
              {queue[i].id : i \in {n \in DOMAIN queue :
                                      queue[n].retry_count < maxRetries}}]_vars

\* C19 witness: a pass has returned; an intent that is not in its snapshot,
\* enqueued while the pass was in flight, is queued with retry_count 0 and no
\* error_message.
C19_Witness ==
  /\ PassReturned
  /\ Len(last.result.snapshot) = 1
  /\ \E i \in DOMAIN queue :
       /\ queue[i].id \notin Range(last.result.snapshot)
       /\ queue[i].retry_count = 0
       /\ queue[i].error_message = NullStr
       /\ queue[i].task_id = last.task

\* C17 as stated: under every interleaving, overlapping passes included, the
\* stored retry_count of a queued intent is the number of failed attempts on
\* it since it was enqueued or last reset (each recorded failure adds
\* exactly one).
C17_Original ==
  \A i \in DOMAIN queue : queue[i].retry_count = attempts[queue[i].id]

\* C18: an intent is applied to the remote with success more than once only
\* if passes have overlapped, and never more often than there are passes in
\* flight at once; once applied with success it is no longer queued, or a
\* pass that applied it has yet to remove it.
C18_AppliedOnceUnlessOverlap ==
  \A id \in DOMAIN applied :
    /\ applied[id] >= 2 => overlapped
    /\ applied[id] <= Cardinality(Passes)
    /\ applied[id] >= 1 =>
         \/ id \notin QueueIds(queue)
         \/ \E p \in Passes : InHand(p, id)

\* C18 witness: two passes whose snapshots both held the intent have each
\* applied it to the remote with success.
C18_Witness ==
  \E id \in DOMAIN applied : applied[id] = 2 /\ overlapped

\* a call of SyncService has just returned after its first statement on the
\* store raised an error (a TaskService call whose enqueue rejects throws the
\* error to its caller; a pass whose loop body meets the error either
\* records it as the failure of the item or returns success = false)
StorageFailed ==
  /\ last.error = StorageError
  /\ last.op \in {"sync", "retryAllFailed", "retryFailed", "clearSyncQueue",
                  "getSyncQueue", "getPendingSyncCount", "getFailedSyncCount"}

\* C14 as stated: a storage failure is surfaced as a failure of the
\* operation, never as an ordinary empty or zero result: the result of
\* sync(), retry_all_failed, retry_selected, clear_queue, the listing and the
\* counts carries the error and is not a success, and no state has changed.
C14_Original ==
  [][(last' # last /\ StorageFailed') =>
       /\ last'.result.details.error # NoError
       /\ ~last'.result.success
       /\ UNCHANGED <<tasks, queue, pass, batchCall>>]_vars

\* what does hold: sync() whose snapshot fetch fails returns success = false
\* with zero counts and the error recorded, and changes neither store.
C14_SyncReportsFailure ==
  [][(last' # last /\ StorageFailed' /\ last'.op = "sync") =>
       /\ ~last'.result.success
       /\ last'.result.synced_items = 0 /\ last'.result.failed_items = 0
       /\ last'.result.details.error = StorageError
       /\ UNCHANGED <<tasks, queue, pass, batchCall>>]_vars

\* a statement of the loop body that rejects is reported as well: after the
\* remote apply it is caught as the failure of the item, and inside
\* handleSyncError it ends the pass with success = false, the error in
\* details and the item counted as failed
C14_PassReportsFailure ==
  [][\A p \in Passes :
       /\ syncItemStorageDown(p) =>
            /\ pass'[p].at = "fail" /\ pass'[p].error = StorageError
            /\ UNCHANGED <<tasks, queue, batchCall>>
       /\ handleSyncErrorStorageDown(p) =>
            /\ pass'[p] = IdlePass
            /\ ~last'.result.success
            /\ last'.result.failed_items = pass[p].errorCount
                   + (IF pass[p].at = "fail" THEN 1 ELSE 0)
            /\ last'.result.synced_items = pass[p].successCount
            /\ last'.result.details.error = StorageError
            /\ UNCHANGED <<tasks, queue, batchCall>>]_vars

\* how often the record id t is named in a sequence of operations or results
Mentions(seq, t) == Cardinality({k \in DOMAIN seq : seq[k].taskId = t})

\* the INSERT of operation k of a batch has settled as C16 says: an accepted
\* operation has its intent appended behind the queued rows, which are left
\* alone, a rejected one changes nothing, and either way the next operation
\* is still to settle or the response is the tally of all of them
BatchStepOK(ops, k, appended) ==
  LET r == last'.result IN
  /\ IF EnqueueFails(ops[k])
     THEN queue' = queue
     ELSE /\ Len(queue') = Len(queue) + 1
          /\ SubSeq(queue', 1, Len(queue)) = queue
          /\ queue'[Len(queue')].task_id = ops[k].taskId
          /\ queue'[Len(queue')].operation = ops[k].operation
          /\ queue'[Len(queue')].retry_count = 0
  /\ k < Len(ops) =>
       /\ batchCall'.pc = "insert"
       /\ batchCall'.ops = ops /\ batchCall'.idx = k
       /\ batchCall'.appended
            = appended \cup (QueueIds(queue') \ QueueIds(queue))
       /\ ~last'.returned
  /\ k = Len(ops) =>
       /\ batchCall' = IdleBatch
       /\ last'.op = "batch" /\ last'.returned
       /\ r.processed = Len(ops)
       /\ r.successful + r.failed = Len(ops)
       /\ r.successful = Cardinality(last'.appended)
       /\ last'.appended
            = appended \cup (QueueIds(queue') \ QueueIds(queue))
       /\ Len(r.results) = Len(ops)
       /\ \A j \in DOMAIN ops :
            Mentions(r.results, ops[j].taskId) = Mentions(ops, ops[j].taskId)
       /\ \A j \in DOMAIN r.results :
            r.results[j].status = "queued" <=> ~EnqueueFails(r.results[j])

\* C16: a batch of N operations is enqueued operation by operation: each
\* accepted operation has its intent appended when its INSERT settles,
\* whatever became of the others, and a rejected one changes nothing; the
\* response has processed = N and successful + failed = N, successful is the
\* number of intents the batch appended, and each operation has exactly one
\* result with its record id (queued if its intent was appended, error if
\* not).  A body that is not a list is answered with 400 and nothing is
\* enqueued.
C16_BatchTally ==
  [][/\ \A body \in BatchBodies :
          batch(body) =>
            IF ~body.isArray
            THEN /\ last'.result.http = 400 /\ ~last'.result.success
                 /\ queue' = queue /\ batchCall' = IdleBatch
            ELSE IF Len(body.operations) = 0
            THEN /\ last'.result.processed = 0 /\ last'.result.success
                 /\ queue' = queue
            ELSE BatchStepOK(body.operations, 1, {})
     /\ batchAddToSyncQueue =>
          BatchStepOK(batchCall.ops, batchCall.idx + 1,
                      batchCall.appended)]_vars

\* C16 witness: a batch of two operations has returned; the store rejected
\* one of them and the other has been enqueued all the same.
C16_Witness ==
  /\ last.op = "batch" /\ last.returned
  /\ Cardinality(last.appended) = 1
  /\ last.result.processed = 2
  /\ last.result.successful = 1 /\ last.result.failed = 1
  /\ ~last.result.success
  /\ Len(queue) >= 1
  /\ queue[Len(queue)].task_id = "t1"
  /\ queue[Len(queue)].operation = "update"

\* the intent is queued with retry_count < maxRetries
PendingIntent(id) ==
  \E i \in DOMAIN queue :
    queue[i].id = id /\ queue[i].retry_count < maxRetries

\* C20: with sync() invoked again and again, one pass at a time, and every
\* remote call returning, every pass in flight comes to its end and every
\* pending intent is eventually removed or exhausted (retry_count = 3): no
\* intent stays pending forever.
C20_IntentsSettle ==
  /\ \A p \in Passes : (pass[p].pc = "running") ~> (pass[p].pc = "idle")
  /\ \A id \in 1..MaxIntents : PendingIntent(id) ~> ~PendingIntent(id)
  /\ [](\A i \in DOMAIN queue : queue[i].retry_count <= maxRetries)

\* C20 witness: no pass is in flight and no intent is pending: one intent has
\* been applied and removed, another is exhausted with retry_count 3.
C20_Witness ==
  /\ \A p \in Passes : pass[p].pc = "idle"
  /\ \A id \in 1..MaxIntents : ~PendingIntent(id)
  /\ \E id \in 1..MaxIntents : applied[id] = 1 /\ id \notin QueueIds(queue)
  /\ \E i \in DOMAIN queue : queue[i].retry_count = maxRetries

\* C21: a Record's last_synced_at is null when the Record is created, and it
\* changes only in the record update by which a pass follows its successful
\* remote apply of an intent referencing that Record; failures, exhaustion, updates, soft
\* deletes, retry resets and the purge leave it as it is.
C21_LastSyncedOnlyOnSuccess ==
  [][\A id \in DOMAIN tasks' :
       /\ id \notin DOMAIN tasks => tasks'[id].last_synced_at = NullTime
       /\ (id \in DOMAIN tasks
             /\ tasks'[id].last_synced_at # tasks[id].last_synced_at) =>
            \E p \in Passes :
              /\ syncItemUpdate(p)
              /\ CurrentItem(p).task_id = id
              /\ applied[CurrentItem(p).id] >= 1]_vars

\* C21 witness: a Record synced by a pass has just been soft-deleted and
\* still carries the time of that pass.
C21_Witness ==
  /\ last.op = "deleteTask" /\ last.returned
  /\ tasks[last.task].is_deleted = 1
  /\ tasks[last.task].sync_status = "pending"
  /\ tasks[last.task].last_synced_at # NullTime

\* what an intent carries from its enqueue on
Captured(row) ==
  [task_id |-> row.task_id, operation |-> row.operation, data |-> row.data,
   created_at |-> row.created_at]

\* C22: an intent that stays queued keeps its task_id, operation, data and
\* created_at through every step (updates and deletes of its Record, failed
\* attempts, retry resets), and the item a pass applies carries the same four
\* values as the queued intent, so a retry applies the payload captured at
\* enqueue time.
C22_IntentImmutable ==
  [][/\ \A id \in QueueIds(queue) \cap QueueIds(queue') :
          Captured(RowOf(queue', id)) = Captured(RowOf(queue, id))
     /\ \A p \in Passes :
          (syncItem(p) /\ CurrentItem(p).id \in QueueIds(queue)) =>
            Captured(CurrentItem(p)) = Captured(RowOf(queue, CurrentItem(p).id))
    ]_vars

\* C22 witness: a create intent that failed on earlier passes has just been
\* reset, after its Record was completed; it still carries the payload of the
\* creation.
C22_Witness ==
  /\ last.op = "retryAllFailed"
  /\ \E i \in DOMAIN queue :
       LET row == queue[i] IN
       /\ row.operation = "create"
       /\ row.retry_count = 0 /\ row.error_message = NullStr
       /\ row.updated_at # NullTime
       /\ row.task_id \in DOMAIN tasks
       /\ tasks[row.task_id].completed = 1
       /\ JSONparse(row.data)[1].completed = FALSE

\* C23: in every state, also with overlapping passes, resets and purges in
\* between, every queued intent has 0 <= retry_count <= maxRetries; it is
\* counted by exactly one of getPendingSyncCount and getFailedSyncCount, and
\* the two counts add up to getTotalSyncItems.
C23_RetryCountBounded ==
  /\ \A i \in DOMAIN queue :
       /\ queue[i].retry_count \in 0..maxRetries
       /\ IsPending(queue[i]) # IsFailed(queue[i])
       /\ IsFailed(queue[i]) <=> queue[i].retry_count = maxRetries
  /\ getPendingSyncCount(queue) + getFailedSyncCount(queue)
       = getTotalSyncItems(queue)

\* C23 witness: two overlapping passes have both failed the same intent from
\* snapshots taken at retry_count 2 (four attempts on it, stored count 3),
\* next to an intent that is still pending.
C23_Witness ==
  /\ overlapped
  /\ \E i \in DOMAIN queue :
       /\ queue[i].retry_count = maxRetries
       /\ attempts[queue[i].id] > maxRetries
  /\ getPendingSyncCount(queue) = 1
  /\ getFailedSyncCount(queue) = 1
  /\ getTotalSyncItems(queue) = 2

\* the queued intents that reference Record id
IntentsOf(id) == {i \in DOMAIN queue : queue[i].task_id = id}

\* no sync() is in flight
NoPassInFlight == \A p \in Passes : pass[p].pc = "idle"

\* pass p is inside the handling of an item: the remote has answered or the
\* failure is recorded, and a statement of the item is still to come
MidStep(p) ==
  pass[p].pc = "running" /\ pass[p].at \in {"update", "delete", "escalate"}

\* C24 (as stated): whenever no pass is mid-step, a Record whose sync_status
\* is synced has no intent referencing it in the queue.
C24_Original ==
  (\A p \in Passes : ~MidStep(p)) =>
    \A id \in DOMAIN tasks :
      tasks[id].sync_status = "synced" => IntentsOf(id) = {}

\* C24 read with the weaker condition that no pass is in flight at all: the
\* same statement, violated as well (second intent of a Record fails after
\* the first succeeded in the same pass).
C24_SyncedWhenIdle ==
  NoPassInFlight => C24_Original

\* C25: with one pass at a time, one mutation at a time and no purge, every
\* Record that no queued intent references has sync_status = synced whenever
\* no mutation is between its record write and its enqueue; a Record is
\* never pending or error with nothing queued to reconcile it.
C25_UnqueuedIsSynced ==
  InFlight = 0 =>
    \A id \in DOMAIN tasks :
      IntentsOf(id) = {} => tasks[id].sync_status = "synced"

\* C25 witness: a Record that had been escalated to error has no intent left
\* after a reset intent of it succeeded, and is synced.
C25_Witness ==
  /\ NoPassInFlight
  /\ last.op = "syncItem" /\ last.error = NoError
  /\ last.prev = "error"
  /\ last.task \in DOMAIN tasks
  /\ IntentsOf(last.task) = {}
  /\ tasks[last.task].sync_status = "synced"

\* C26: retryAllFailed, retryFailed and clearSyncQueue leave the tasks table
\* as it is (the listing and the counts change no state at all), and a
\* Record in status error leaves that status only in the record update of a
\* pass that succeeded on an intent of that Record or in an update or soft
\* delete of it,
\* so it stays in error after the reset of its exhausted intent.
C26_AdminLeavesRecords ==
  [][/\ (retryAllFailed \/ clearSyncQueue
          \/ \E ids \in IdLists : retryFailed(ids)) => tasks' = tasks
     /\ \A id \in DOMAIN tasks :
          (tasks[id].sync_status = "error"
             /\ tasks'[id].sync_status # "error") =>
            \/ \E p \in Passes :
                 syncItemUpdate(p) /\ CurrentItem(p).task_id = id
            \/ \E c \in Callers :
                 /\ updateTaskUpdate(c) \/ deleteTaskUpdate(c)
                 /\ call[c].id = id
    ]_vars

\* C26 witness: the only intent ever enqueued was exhausted, which put its
\* Record in status error, then reset, and has failed once more since; the
\* Record is still in error while the intent is pending again.
C26_Witness ==
  /\ nextSyncId = 2
  /\ last.op = "syncItem" /\ last.error # NoError /\ last.queued
  /\ last.rc = 0 /\ last.prev = "error"
  /\ last.id \in QueueIds(queue)
  /\ RowOf(queue, last.id).retry_count = 1
  /\ last.task \in DOMAIN tasks
  /\ tasks[last.task].sync_status = "error"

====
